---------------------------- MODULE Spec2Model ----------------------------
(***************************************************************************)
(* The MCP tool-dispatch layer of the repository's tool servers.           *)
(*                                                                         *)
(* Six POST /mcp dispatchers are modelled, each translated from its own    *)
(* source file:                                                            *)
(*   "figma"    src/figma-mcp/app.py            mcp_post                   *)
(*   "vertex"   src/vertex-ai-mcp/app.py        mcp_post                   *)
(*   "slide"    src/slide-transform-mcp/app.py  mcp_post                   *)
(*   "nbapp"    src/notebooklm-mcp/app.py       mcp_post                   *)
(*   "nbserver" src/notebooklm-mcp/server.py    mcp_handler                *)
(*   "simli"    src/simli-mcp/mcp_server.py     mcp_handler                *)
(*                                                                         *)
(* A behaviour is the life of one server process: the server is chosen in  *)
(* Init and then answers a bounded number of requests.  A request is a     *)
(* JSON object; its members are drawn from small sample sets.  The answer  *)
(* of the downstream API a tool handler talks to is a nondeterministic     *)
(* input of the request (DownOutcomes).                                    *)
(*                                                                         *)
(* Python values: a JSON scalar is a record [t, s, n] (JNull, JStr, JNum); *)
(* a dict is the sequence of its (key, value) pairs in insertion order; a  *)
(* tool descriptor is represented by its name.                             *)
(***************************************************************************)
EXTENDS Integers, Sequences, FiniteSets, TLC

VARIABLES
    srv,      \* the server process of this behaviour
    req,      \* the last request body received (NoReq before the first)
    resp,     \* the HTTP response to the last request (NoResp before the first)
    calls,    \* calls[t]: how often the handler of tool t has been invoked
    invoked,  \* the handlers invoked by the last request, in order
    hcall,    \* what the handler call of the last request yielded (NoCall if none)
    fault,    \* the last request raised an exception in the dispatcher itself
    nreq,     \* number of requests answered so far
    configured, \* the server's credential environment variable is set
    shared,   \* the module-level slots a request has written so far
    sse,      \* the answer to the last GET /mcp (NoStream before the first)
    nsse,     \* number of GET /mcp requests answered so far
    flight,   \* flight[w]: the request worker thread w is serving
    registry, \* the tool descriptor list and the dispatchable names
    sent,     \* the downstream requests the last tool call issued, in order
    lazy      \* vertex-ai-mcp's lazily created clients and the threads creating them

vars == <<srv, req, resp, calls, invoked, hcall, fault, nreq, configured,
          shared, sse, nsse, flight, registry, sent, lazy>>

-----------------------------------------------------------------------------
(* Bounds of the model *)

MaxRequests == 2

\* GET /mcp requests per behaviour
MaxStreams == 2

\* calls of init_vertexai / get_vision_client / get_documentai_client begun
\* per behaviour
MaxLazyCalls == 4

-----------------------------------------------------------------------------
(* JSON scalars and Python's str() of them *)

JNull == [t |-> "null", s |-> "", n |-> 0]
JStr(x) == [t |-> "str", s |-> x, n |-> 0]
JNum(x) == [t |-> "num", s |-> "", n |-> x]
JBool(b) == [t |-> "bool", s |-> IF b THEN "true" ELSE "false", n |-> 0]
\* a nested JSON value the model does not look into; s is its serialisation
JRaw(x) == [t |-> "raw", s |-> x, n |-> 0]

Digit(d) == CASE d = 0 -> "0" [] d = 1 -> "1" [] d = 2 -> "2" [] d = 3 -> "3"
              [] d = 4 -> "4" [] d = 5 -> "5" [] d = 6 -> "6" [] d = 7 -> "7"
              [] d = 8 -> "8" [] OTHER -> "9"

RECURSIVE NatStr(_)
NatStr(k) == IF k < 10 THEN Digit(k) ELSE NatStr(k \div 10) \o Digit(k % 10)

\* str(v) as an f-string interpolates it: None for a missing value
PyStr(v) == CASE v.t = "null" -> "None"
              [] v.t = "bool" -> IF v.s = "true" THEN "True" ELSE "False"
              [] v.t = "num"  -> IF v.n < 0 THEN "-" \o NatStr(-v.n) ELSE NatStr(v.n)
              [] OTHER -> v.s

\* json.dumps of a scalar
DumpsValue(v) == CASE v.t = "null" -> "null"
                   [] v.t = "bool" -> v.s
                   [] v.t = "num"  -> IF v.n < 0 THEN "-" \o NatStr(-v.n) ELSE NatStr(v.n)
                   [] v.t = "str"  -> "\"" \o v.s \o "\""
                   [] OTHER -> v.s

\* one (key, value) pair of a dict
KV(k, v) == [k |-> k, v |-> v]

RECURSIVE DumpsItems(_, _)
DumpsItems(items, sep) ==
    IF Len(items) = 0 THEN ""
    ELSE "\"" \o Head(items).k \o "\": " \o DumpsValue(Head(items).v)
         \o (IF Len(items) = 1 THEN "" ELSE sep \o DumpsItems(Tail(items), sep))

\* json.dumps(d, indent=2) of a flat dict
DumpsIndent2(d) ==
    IF Len(d) = 0 THEN "{}" ELSE "{\n  " \o DumpsItems(d, ",\n  ") \o "\n}"

\* json.dumps(d) of a flat dict
DumpsCompact(d) ==
    IF Len(d) = 0 THEN "{}" ELSE "{" \o DumpsItems(d, ", ") \o "}"

\* sub occurs in s
Contains(s, sub) ==
    \E i \in 1..(Len(s) - Len(sub) + 1) : SubSeq(s, i, i + Len(sub) - 1) = sub

\* d has key k / d[k]
HasKey(d, k) == \E i \in 1..Len(d) : d[i].k = k
Lookup(d, k) == d[CHOOSE i \in 1..Len(d) : d[i].k = k].v

SeqToSet(q) == {q[i] : i \in 1..Len(q)}

-----------------------------------------------------------------------------
(* The servers and their tool registries *)

Servers == {"figma", "vertex", "slide", "nbapp", "nbserver", "simli"}

\* MCP_TOOLS of figma-mcp: the descriptors' names in list order
FigmaTools == <<"get_file", "get_file_nodes", "export_nodes", "get_components",
                "get_styles", "list_files", "list_projects", "get_me",
                "create_comment", "get_comments">>

\* MCP_TOOLS of vertex-ai-mcp
VertexTools == <<"gemini_generate", "gemini_chat", "gemini_analyze_image",
                 "gemini_analyze_document", "imagen_generate", "imagen_edit",
                 "vision_ocr", "vision_detect_labels", "vision_detect_objects",
                 "vision_detect_faces", "vision_detect_logos",
                 "document_parse_pdf", "document_extract_tables", "list_models">>

\* MCP_TOOLS of slide-transform-mcp
SlideTools == <<"vectorize_image", "remove_background",
                "analyze_slide_for_redesign", "extract_slide_elements",
                "get_credits_balance">>

\* MCP_TOOLS of notebooklm-mcp/app.py
NbAppTools == <<"create_notebook", "get_notebook", "list_notebooks", "add_source",
                "add_web_source", "add_youtube_source", "delete_notebook",
                "share_notebook">>

\* the list returned inline by tools/list in notebooklm-mcp/server.py
NbServerTools == <<"list_notebooks", "get_notebook", "create_notebook",
                   "add_source", "delete_notebook", "share_notebook">>

\* mutant: a descriptor is registered a second time under the same name
SimliToolsDuplicated == <<"list_agents", "get_agent", "update_agent", "create_agent",
                          "delete_agent", "list_faces", "get_agent">>

\* TOOLS of simli-mcp
SimliTools == <<"list_agents", "get_agent", "update_agent", "create_agent",
                "delete_agent", "list_faces">>

\* the list a server's tools/list returns
ToolList(s) == CASE s = "figma"    -> FigmaTools
                 [] s = "vertex"   -> VertexTools
                 [] s = "slide"    -> SlideTools
                 [] s = "nbapp"    -> NbAppTools
                 [] s = "nbserver" -> NbServerTools
                 [] OTHER          -> SimliTools

\* tool_map of figma-mcp's mcp_post: the names that resolve to a handler
FigmaToolMap == {"get_file", "get_file_nodes", "export_nodes", "get_components",
                 "get_styles", "list_files", "list_projects", "get_me",
                 "create_comment", "get_comments"}

\* tool_map of vertex-ai-mcp's mcp_post
VertexToolMap == {"gemini_generate", "gemini_chat", "gemini_analyze_image",
                  "gemini_analyze_document", "imagen_generate", "imagen_edit",
                  "vision_ocr", "vision_detect_labels", "vision_detect_objects",
                  "vision_detect_faces", "vision_detect_logos",
                  "document_parse_pdf", "document_extract_tables", "list_models"}

\* the names compared in the if-chain of slide-transform-mcp's mcp_post
SlideBranches == {"vectorize_image", "remove_background",
                  "analyze_slide_for_redesign", "extract_slide_elements",
                  "get_credits_balance"}

\* the names compared in the if-chain of notebooklm-mcp/app.py's mcp_post
NbAppBranches == {"create_notebook", "get_notebook", "list_notebooks",
                  "add_source", "add_web_source", "add_youtube_source",
                  "delete_notebook", "share_notebook"}

\* the names compared in execute_tool of notebooklm-mcp/server.py
NbServerBranches == {"list_notebooks", "get_notebook", "create_notebook",
                     "add_source", "delete_notebook", "share_notebook"}

\* the names compared in handle_tool_call of simli-mcp
SimliBranches == {"list_agents", "get_agent", "update_agent", "create_agent",
                  "delete_agent", "list_faces"}

\* the names for which a server's tools/call reaches a handler
Dispatchable(s) == CASE s = "figma"    -> FigmaToolMap
                     [] s = "vertex"   -> VertexToolMap
                     [] s = "slide"    -> SlideBranches
                     [] s = "nbapp"    -> NbAppBranches
                     [] s = "nbserver" -> NbServerBranches
                     [] OTHER          -> SimliBranches

\* a handler's Python signature: required and defaulted parameter names
Sig(r, o) == [req |-> r, opt |-> o]

\* def get_file(file_key, depth=2) ... def get_comments(file_key)
FigmaSig(t) ==
    CASE t = "get_file"       -> Sig({"file_key"}, {"depth"})
      [] t = "get_file_nodes" -> Sig({"file_key", "node_ids"}, {})
      [] t = "export_nodes"   -> Sig({"file_key", "node_ids"}, {"format", "scale"})
      [] t = "get_components" -> Sig({"file_key"}, {})
      [] t = "get_styles"     -> Sig({"file_key"}, {})
      [] t = "list_files"     -> Sig({"project_id"}, {})
      [] t = "list_projects"  -> Sig({"team_id"}, {})
      [] t = "get_me"         -> Sig({}, {})
      [] t = "create_comment" -> Sig({"file_key", "message"}, {"x", "y", "node_id"})
      [] OTHER                -> Sig({"file_key"}, {})

\* def gemini_generate(prompt, model=..., ...) ... def list_models()
VertexSig(t) ==
    CASE t = "gemini_generate" -> Sig({"prompt"}, {"model", "temperature", "max_tokens"})
      [] t = "gemini_chat" -> Sig({"messages"}, {"model", "system_instruction"})
      [] t = "gemini_analyze_image" -> Sig({"image_base64"}, {"prompt", "model"})
      [] t = "gemini_analyze_document" ->
             Sig({"document_text", "analysis_prompt"}, {"model"})
      [] t = "imagen_generate" ->
             Sig({"prompt"}, {"number_of_images", "aspect_ratio", "negative_prompt"})
      [] t = "imagen_edit" -> Sig({"image_base64", "prompt"}, {"mask_base64"})
      [] t = "vision_ocr" -> Sig({"image_base64"}, {"language_hints"})
      [] t = "vision_detect_labels" -> Sig({"image_base64"}, {"max_results"})
      [] t = "document_parse_pdf" -> Sig({"pdf_base64"}, {"processor_id"})
      [] t = "list_models" -> Sig({}, {})
      [] OTHER -> Sig({"image_base64"}, {})

\* def vectorize_image(image_url=None, image_base64=None, output_format=..., ...)
SlideSig(t) ==
    CASE t = "vectorize_image" ->
             Sig({}, {"image_url", "image_base64", "output_format", "processing_mode"})
      [] t = "remove_background" -> Sig({}, {"image_url", "image_base64"})
      [] t = "analyze_slide_for_redesign" ->
             Sig({"image_base64"}, {"brand_colors", "style"})
      [] t = "extract_slide_elements" -> Sig({"image_base64"}, {})
      [] OTHER -> Sig({}, {})

\* def create_notebook(title) ... def share_notebook(notebook_id, email, role="VIEWER")
NbAppSig(t) ==
    CASE t = "create_notebook" -> Sig({"title"}, {})
      [] t = "get_notebook" -> Sig({"notebook_id"}, {})
      [] t = "list_notebooks" -> Sig({}, {})
      [] t = "add_source" -> Sig({"notebook_id", "content"}, {"title"})
      [] t = "add_web_source" -> Sig({"notebook_id", "url"}, {"title"})
      [] t = "add_youtube_source" -> Sig({"notebook_id", "url"}, {})
      [] t = "delete_notebook" -> Sig({"notebook_id"}, {})
      [] OTHER -> Sig({"notebook_id", "email"}, {"role"})

\* the keys of a dict
Keys(d) == {d[i].k : i \in 1..Len(d)}

\* f(**args) binds: every required parameter is given and no unknown keyword
Binds(sig, args) ==
    /\ sig.req \subseteq Keys(args)
    /\ Keys(args) \subseteq (sig.req \cup sig.opt)

\* Python truthiness of a JSON scalar
Truthy(v) == CASE v.t = "null" -> FALSE
               [] v.t = "bool" -> v.s = "true"
               [] v.t = "num"  -> v.n # 0
               [] v.t = "str"  -> v.s # ""
               [] OTHER -> TRUE

\* d.get(k): None when the key is missing
DictGet(d, k) == IF HasKey(d, k) THEN Lookup(d, k) ELSE JNull

\* d.get(k, default)
DictGetDefault(d, k, default) == IF HasKey(d, k) THEN Lookup(d, k) ELSE default

-----------------------------------------------------------------------------
(* HTTP responses *)

NoResult == [kind |-> "none", protocolVersion |-> "", serverName |-> "",
             serverVersion |-> "", toolsCap |-> << >>, tools |-> << >>,
             content |-> << >>]

\* "result" of initialize: protocolVersion, serverInfo, capabilities.tools
InitializeResult(name, version, cap) ==
    [NoResult EXCEPT !.kind = "initialize", !.protocolVersion = "2024-11-05",
                     !.serverName = name, !.serverVersion = version,
                     !.toolsCap = cap]

\* mutant: only a first page of the list is returned
ToolsResultPaged(list) ==
    [NoResult EXCEPT !.kind = "tools", !.tools = SubSeq(list, 1, 2)]

\* {"tools": [...]}
ToolsResult(list) == [NoResult EXCEPT !.kind = "tools", !.tools = list]

\* {"content": [{"type": "text", "text": text}]}
TextBlock(text) == [type |-> "text", text |-> text]
ContentResult(text) ==
    [NoResult EXCEPT !.kind = "content", !.content = <<TextBlock(text)>>]

\* {}
EmptyResult == [NoResult EXCEPT !.kind = "empty"]

\* a response without a JSON body; has is the set of the body's members
BaseResp == [status |-> 200, kind |-> "json", has |-> {}, jsonrpc |-> "",
             id |-> JNull, result |-> NoResult, error |-> [isObject |-> FALSE, code |-> 0, message |-> ""],
             tools |-> << >>, content |-> << >>]

NoResp == [BaseResp EXCEPT !.status = 0, !.kind = "none"]

\* {"jsonrpc": "2.0", "id": rid, "result": result}
ResultEnvelope(rid, result) ==
    [BaseResp EXCEPT !.has = {"jsonrpc", "id", "result"}, !.jsonrpc = "2.0",
                     !.id = rid, !.result = result]

\* {"jsonrpc": "2.0", "id": rid, "error": {"code": code, "message": message}}
ErrorEnvelope(rid, code, message) ==
    [BaseResp EXCEPT !.has = {"jsonrpc", "id", "error"}, !.jsonrpc = "2.0",
                     !.id = rid,
                     !.error = [isObject |-> TRUE, code |-> code, message |-> message]]

\* An exception leaves the view function: Flask answers 500 with its own
\* HTML error page; no JSON-RPC body is written.
Fault500 == [BaseResp EXCEPT !.status = 500, !.kind = "html"]

\* request.get_json() on a body that is not JSON raises BadRequest, which
\* Flask answers 400 with an HTML page.
BadRequest400 == [BaseResp EXCEPT !.status = 400, !.kind = "html"]


\* what a handler call yields: a returned dict, or a raised exception
Returned(d) == [made |-> TRUE, raised |-> FALSE, result |-> d, exc |-> ""]
Raised(msg) == [made |-> TRUE, raised |-> TRUE, result |-> << >>, exc |-> msg]
NoCall == [made |-> FALSE, raised |-> FALSE, result |-> << >>, exc |-> ""]

\* what a dispatcher run yields: the response, the handlers it invoked, what
\* the handler call yielded, and whether an exception was raised in the
\* dispatcher itself (outside any handler)
Outcome(r, inv) == [resp |-> r, invoked |-> inv, call |-> NoCall, fault |-> FALSE]
\* mutant: a handler whose call raised is invoked a second time
HandlerOutcomeRetried(r, inv, call) ==
    [resp |-> r,
     invoked |-> IF inv # << >> /\ call.raised THEN inv \o inv ELSE inv,
     call |-> IF inv = << >> THEN NoCall ELSE call,
     fault |-> FALSE]

HandlerOutcome(r, inv, call) ==
    [resp |-> r, invoked |-> inv, call |-> IF inv = << >> THEN NoCall ELSE call,
     fault |-> FALSE]
DispatchFault(r) == [resp |-> r, invoked |-> << >>, call |-> NoCall, fault |-> TRUE]

-----------------------------------------------------------------------------
(* Requests *)

\* the answers of the downstream API a handler may see
DownOutcomes == {"ok", "ok_empty", "http_error", "exception"}

\* sample texts of downstream failures
ApiErrorText == "API error " \o NatStr(404) \o ": Not Found"
ExceptionText == "Connection timed out"
JsonErrorText == "Expecting value: line 1 column 1 (char 0)"

IdSamples == {JNull, JStr("abc"), JNum(7)}

MethodSamples == {"initialize", "tools/list", "tools/call", "ping",
                  "notifications/initialized", "resources/list"}

\* the tool names requests carry with sampled argument mappings: some
\* registered names of the server and one that no server registers
NameSamples(s) ==
    CASE s = "figma"    -> {"get_file", "get_me", "create_comment", "nope"}
      [] s = "vertex"   -> {"gemini_generate", "document_parse_pdf", "list_models", "nope"}
      [] s = "slide"    -> {"vectorize_image", "remove_background",
                            "analyze_slide_for_redesign", "get_credits_balance", "nope"}
      [] s = "nbapp"    -> {"create_notebook", "list_notebooks", "delete_notebook", "nope"}
      [] s = "nbserver" -> {"list_notebooks", "get_notebook", "create_notebook", "nope"}
      [] OTHER          -> {"list_agents", "get_agent", "update_agent", "nope"}

ArgSamples(s) ==
    CASE s = "figma" ->
           { << >>,
             <<KV("file_key", JStr("K1"))>>,
             <<KV("file_key", JStr("K1")), KV("node_ids", JStr("1:2"))>>,
             <<KV("file_key", JStr("K1")), KV("bogus", JNum(1))>> }
      [] s = "vertex" ->
           { << >>,
             <<KV("prompt", JStr("hi"))>>,
             <<KV("pdf_base64", JStr("aGk="))>>,
             <<KV("prompt", JStr("hi")), KV("bogus", JNum(1))>> }
      [] s = "slide" ->
           { << >>,
             <<KV("image_url", JStr("http://x/i.png"))>>,
             <<KV("image_base64", JStr("aGk="))>>,
             <<KV("image_url", JStr("http://x/i.png")), KV("image_base64", JStr("aGk="))>>,
             <<KV("image_url", JStr("")), KV("image_base64", JStr("aGk="))>>,
             <<KV("image_url", JStr("http://x/i.png")), KV("bogus", JNum(1))>> }
      [] s = "nbapp" ->
           { << >>,
             <<KV("notebook_id", JStr("n1"))>>,
             <<KV("title", JStr("T"))>>,
             <<KV("notebook_id", JStr("n1")), KV("bogus", JNum(1))>> }
      [] s = "nbserver" ->
           { << >>,
             <<KV("notebook_id", JStr("n1"))>>,
             <<KV("title", JStr("T"))>> }
      [] OTHER ->
           { << >>,
             <<KV("agent_id", JStr("a1"))>>,
             <<KV("agent_id", JStr(""))>>,
             <<KV("agent_id", JStr("a1")), KV("name", JStr("Ava")),
               KV("prompt", JNull), KV("bogus", JNum(1))>> }

\* a request body; params and args say whether the member is absent, a
\* mapping or some other JSON value; body says what request.get_json() finds
Request(body, hasId, id, hasMethod, method, params, hasName, name, args, argmap) ==
    [body |-> body, hasId |-> hasId, id |-> id, hasMethod |-> hasMethod,
     method |-> method, params |-> params, hasName |-> hasName, name |-> name,
     args |-> args, argmap |-> argmap]

NoReq == Request("none", FALSE, JNull, FALSE, "", "absent", FALSE, "", "absent", << >>)

\* the "id" members sampled: absent, or one of IdSamples
IdChoices == {[has |-> FALSE, id |-> JNull]} \cup {[has |-> TRUE, id |-> i] : i \in IdSamples}

\* the "id" member of the requests that vary the other members
NumId == [has |-> TRUE, id |-> JNum(7)]

\* JSON objects whose method is not tools/call, or is missing
PlainRequests ==
    { Request("object", i.has, i.id, TRUE, m, "absent", FALSE, "", "absent", << >>) :
        i \in IdChoices, m \in MethodSamples \ {"tools/call"} }
    \cup
    { Request("object", NumId.has, NumId.id, TRUE, m, p, FALSE, "", "absent", << >>) :
        m \in MethodSamples \ {"tools/call"}, p \in {"map", "scalar"} }
    \cup
    { Request("object", i.has, i.id, FALSE, "", "absent", FALSE, "", "absent", << >>) :
        i \in IdChoices }

\* tools/call requests
CallRequests(s) ==
    \* params missing, or not a mapping
    { Request("object", NumId.has, NumId.id, TRUE, "tools/call", p, FALSE, "", "absent", << >>) :
        p \in {"absent", "scalar"} }
    \cup
    \* every id with a name that is not registered, and with none
    { Request("object", i.has, i.id, TRUE, "tools/call", "map", n.has, n.name, "map", << >>) :
        i \in IdChoices, n \in {[has |-> TRUE, name |-> "nope"], [has |-> FALSE, name |-> ""]} }
    \cup
    \* every registered name without arguments
    { Request("object", NumId.has, NumId.id, TRUE, "tools/call", "map", TRUE, n, "absent", << >>) :
        n \in Dispatchable(s) }
    \cup
    \* every id with the sampled names, without arguments
    { Request("object", i.has, i.id, TRUE, "tools/call", "map", TRUE, n, "absent", << >>) :
        i \in IdChoices, n \in NameSamples(s) }
    \cup
    \* the sampled names with every sampled argument mapping
    { Request("object", NumId.has, NumId.id, TRUE, "tools/call", "map", TRUE, n, "map", am) :
        n \in NameSamples(s), am \in ArgSamples(s) }
    \cup
    \* arguments that are not a mapping
    { Request("object", NumId.has, NumId.id, TRUE, "tools/call", "map", TRUE, n, "scalar", << >>) :
        n \in NameSamples(s) }

\* the request bodies: the two sets above, and bodies that are not a JSON
\* object (not JSON at all, null, a non-empty array)
Requests(s) ==
    PlainRequests \cup CallRequests(s)
    \cup { Request(b, FALSE, JNull, FALSE, "", "absent", FALSE, "", "absent", << >>) :
             b \in {"malformed", "null", "array"} }

\* the downstream answers that can make a difference to request r
DownFor(r) == IF r.method = "tools/call" /\ r.params = "map" /\ r.hasName
                 /\ r.name # "nope" /\ r.args # "scalar"
              THEN DownOutcomes ELSE {"ok"}

\* mutant: a missing id is answered with the number 0
ReqIdMissingIsZero(r) == IF r.hasId THEN r.id ELSE JNum(0)

\* data.get('id')
ReqId(r) == IF r.hasId THEN r.id ELSE JNull

\* params.get('name')
ReqName(r) == IF r.hasName THEN JStr(r.name) ELSE JNull

\* params.get('arguments', {}) when it is a mapping
ReqArgs(r) == IF r.args = "map" THEN r.argmap ELSE << >>

-----------------------------------------------------------------------------
(* figma-mcp *)

Failure(text) == <<KV("success", JBool(FALSE)), KV("error", JStr(text))>>

\* figma_request(endpoint, method, data)
FigmaRequest(httpMethod, down, cfg) ==
    IF ~cfg THEN Failure("Figma token not configured")
    ELSE IF httpMethod \notin {"GET", "POST"}
         THEN Failure("Unsupported method: " \o httpMethod)
    ELSE CASE down = "ok" ->
                <<KV("success", JBool(TRUE)), KV("data", JRaw("{\"name\": \"F\"}"))>>
           [] down = "ok_empty" -> Failure(JsonErrorText)   \* resp.json() raises
           [] down = "http_error" -> Failure(ApiErrorText)
           [] OTHER -> Failure(ExceptionText)

\* the bodies of get_file ... get_comments, once the arguments are bound
FigmaHandler(t, args, down, cfg) ==
    CASE t = "export_nodes" ->
           LET result == FigmaRequest("GET", down, cfg)
           IN  IF Lookup(result, "success") = JBool(TRUE)
               THEN <<KV("success", JBool(TRUE)), KV("images", JRaw("{\"1:2\": \"u\"}"))>>
               ELSE result
      [] t = "create_comment" -> FigmaRequest("POST", down, cfg)
      [] OTHER -> FigmaRequest("GET", down, cfg)

\* tool_map[name](**args)
FigmaCall(t, r, down, cfg) ==
    IF r.args = "scalar" THEN Raised("argument after ** must be a mapping")
    ELSE IF ~Binds(FigmaSig(t), ReqArgs(r))
         THEN Raised(t \o "() got unexpected or missing keyword arguments")
    ELSE Returned(FigmaHandler(t, ReqArgs(r), down, cfg))

\* mutant: the unknown-tool branch builds an empty mapping
UnknownToolEmpty(name) == << >>

\* result = {"error": f"Unknown tool: {name}"}
UnknownToolNamed(name) == <<KV("error", JStr("Unknown tool: " \o PyStr(name)))>>

\* the tools/call branch of a dispatcher whose handlers are looked up in a
\* tool_map (figma-mcp and vertex-ai-mcp): resolved says name is in tool_map
\* and call is what the handler call yields
ToolMapCall(rid, r, resolved, call) ==
    IF r.params = "scalar" THEN DispatchFault(Fault500)    \* params.get raises
    ELSE IF resolved
         THEN IF call.raised
              THEN HandlerOutcome(Fault500, <<r.name>>, call)
              ELSE HandlerOutcome(
                       ResultEnvelope(rid, ContentResult(DumpsIndent2(call.result))),
                       <<r.name>>, call)
         ELSE Outcome(ResultEnvelope(rid,
                          ContentResult(DumpsIndent2(UnknownToolNamed(ReqName(r))))),
                      << >>)

\* mutant: any named tool resolves (a lookup with a default handler)
FigmaResolvesAny(r) == r.hasName

\* mutant: a call without a name resolves to a default handler
FigmaResolvesDefault(r) == ~r.hasName \/ r.name \in FigmaToolMap

\* name in tool_map
FigmaResolves(r) == r.hasName /\ r.name \in FigmaToolMap

\* mutant: the fall-through error carries the code of "invalid request"
MethodNotFoundWrongCode(rid) == ErrorEnvelope(rid, -32600, "Method not found")

\* the last statement of the four mcp_post dispatchers
MethodNotFound(rid) == ErrorEnvelope(rid, -32601, "Method not found")

\* mcp_post of figma-mcp
FigmaMcpPost(r, down, cfg) ==
    IF r.body = "malformed" THEN DispatchFault(BadRequest400)
    ELSE IF r.body # "object" THEN DispatchFault(Fault500)   \* data.get raises
    ELSE LET method == IF r.hasMethod THEN r.method ELSE ""
             rid == ReqId(r)
         IN  CASE method = "initialize" ->
                    Outcome(ResultEnvelope(rid,
                                InitializeResult("figma-mcp", "1.0.0", << >>)), << >>)
               [] method = "tools/list" ->
                    Outcome(ResultEnvelope(rid, ToolsResult(FigmaTools)), << >>)
               [] method = "tools/call" ->
                    ToolMapCall(rid, r, FigmaResolves(r),
                                FigmaCall(r.name, r, down, cfg))
               [] method = "ping" -> Outcome(ResultEnvelope(rid, EmptyResult), << >>)
               [] OTHER -> Outcome(MethodNotFound(rid), << >>)

-----------------------------------------------------------------------------
(* vertex-ai-mcp *)

\* what the bodies of the vertex-ai-mcp handlers return on success
VertexSuccess(t) ==
    CASE t \in {"gemini_generate"} ->
           <<KV("success", JBool(TRUE)), KV("text", JStr("out")),
             KV("model", JStr("gemini-2.0-flash-exp"))>>
      [] t = "gemini_chat" ->
           <<KV("success", JBool(TRUE)), KV("response", JStr("out")),
             KV("model", JStr("gemini-2.0-flash-exp"))>>
      [] t \in {"gemini_analyze_image", "gemini_analyze_document"} ->
           <<KV("success", JBool(TRUE)), KV("analysis", JStr("out")),
             KV("model", JStr("gemini-1.5-pro"))>>
      [] t \in {"imagen_generate", "imagen_edit"} ->
           <<KV("success", JBool(TRUE)), KV("images", JRaw("[\"aGk=\"]")),
             KV("count", JNum(1))>>
      [] t = "vision_ocr" ->
           <<KV("success", JBool(TRUE)), KV("full_text", JStr("out")),
             KV("annotations", JRaw("[]"))>>
      [] t = "vision_detect_labels" ->
           <<KV("success", JBool(TRUE)), KV("labels", JRaw("[]"))>>
      [] t = "vision_detect_objects" ->
           <<KV("success", JBool(TRUE)), KV("objects", JRaw("[]"))>>
      [] t = "vision_detect_faces" ->
           <<KV("success", JBool(TRUE)), KV("faces", JRaw("[]")), KV("count", JNum(0))>>
      [] t = "vision_detect_logos" ->
           <<KV("success", JBool(TRUE)), KV("logos", JRaw("[]"))>>
      [] t = "document_parse_pdf" ->
           <<KV("success", JBool(TRUE)), KV("text", JStr("out")), KV("pages", JNum(1)),
             KV("entities", JRaw("[]"))>>
      [] t = "document_extract_tables" ->
           <<KV("success", JBool(TRUE)), KV("text", JStr("out")),
             KV("tables_detected", JNum(0))>>
      [] OTHER ->
           <<KV("success", JBool(TRUE)), KV("models", JRaw("{}"))>>

\* the message a handler returns when its lazily created client is missing
VertexNotInitialized(t) ==
    CASE t \in {"gemini_generate", "gemini_chat", "gemini_analyze_image",
                "gemini_analyze_document", "imagen_generate", "imagen_edit"} ->
           "Vertex AI not initialized"
      [] t = "document_parse_pdf" -> "Document AI client not initialized"
      [] OTHER -> "Vision client not initialized"

\* the module-level slot a handler's client lives in:
\* _vertexai_initialized, _vision_client, _documentai_client
VertexSlot(t) ==
    CASE t \in {"gemini_generate", "gemini_chat", "gemini_analyze_image",
                "gemini_analyze_document", "imagen_generate", "imagen_edit"} ->
           "_vertexai_initialized"
      [] t = "document_parse_pdf" -> "_documentai_client"
      [] OTHER -> "_vision_client"

\* init_vertexai() / get_vision_client() / get_documentai_client(): the slot
\* is returned when a request has set it, else the client is created, which
\* succeeds when cfg (the Google libraries and credentials are usable)
LazyClient(slot, cfg, g) == slot \in g \/ cfg

\* the bodies of gemini_generate ... list_models: each is one try block that
\* turns every exception into a failure mapping; g is the set of module-level
\* slots already set
VertexHandler(t, args, down, cfg, g) ==
    IF t = "list_models" THEN VertexSuccess(t)
    ELSE IF ~LazyClient(VertexSlot(t), cfg, g) THEN Failure(VertexNotInitialized(t))
    ELSE IF t = "document_parse_pdf" /\ ~Truthy(DictGet(args, "processor_id"))
         THEN Failure("No Document AI processor ID configured")
    ELSE IF down = "ok" THEN VertexSuccess(t)
    ELSE Failure(ExceptionText)

\* tool_map[name](**args)
VertexCall(t, r, down, cfg, g) ==
    IF r.args = "scalar" THEN Raised("argument after ** must be a mapping")
    ELSE IF ~Binds(VertexSig(t), ReqArgs(r))
         THEN Raised(t \o "() got unexpected or missing keyword arguments")
    ELSE Returned(VertexHandler(t, ReqArgs(r), down, cfg, g))

\* mutant: a listed tool is missing from tool_map
VertexResolvesUnlisted(r) ==
    r.hasName /\ r.name \in (VertexToolMap \ {"list_models"})

\* name in tool_map
VertexResolves(r) == r.hasName /\ r.name \in VertexToolMap

\* mcp_post of vertex-ai-mcp
VertexMcpPost(r, down, cfg, g) ==
    IF r.body = "malformed" THEN DispatchFault(BadRequest400)
    ELSE IF r.body # "object" THEN DispatchFault(Fault500)
    ELSE LET method == IF r.hasMethod THEN r.method ELSE ""
             rid == ReqId(r)
         IN  CASE method = "initialize" ->
                    Outcome(ResultEnvelope(rid,
                                InitializeResult("vertex-ai-mcp", "2.0.0", << >>)), << >>)
               [] method = "tools/list" ->
                    Outcome(ResultEnvelope(rid, ToolsResult(VertexTools)), << >>)
               [] method = "tools/call" ->
                    ToolMapCall(rid, r, VertexResolves(r),
                                VertexCall(r.name, r, down, cfg, g))
               [] method = "ping" -> Outcome(ResultEnvelope(rid, EmptyResult), << >>)
               [] OTHER -> Outcome(MethodNotFound(rid), << >>)

-----------------------------------------------------------------------------
(* slide-transform-mcp *)

\* vectorize_image(image_url, image_base64, output_format, processing_mode)
VectorizeImage(args, down, cfg) ==
    IF ~cfg THEN Failure("Vectorizer.AI credentials not configured")
    ELSE IF ~Truthy(DictGet(args, "image_url")) /\ ~Truthy(DictGet(args, "image_base64"))
         THEN Failure("Either image_url or image_base64 required")
    ELSE CASE down \in {"ok", "ok_empty"} ->
                IF DictGetDefault(args, "output_format", JStr("svg")) = JStr("svg")
                THEN <<KV("success", JBool(TRUE)),
                       KV("svg_content", JStr(IF down = "ok" THEN "<svg/>" ELSE "")),
                       KV("format", JStr("svg"))>>
                ELSE <<KV("success", JBool(TRUE)), KV("content_base64", JStr("aGk=")),
                       KV("format", DictGet(args, "output_format"))>>
           [] down = "http_error" -> Failure(ApiErrorText)
           [] OTHER -> Failure(ExceptionText)

\* remove_background(image_url, image_base64)
RemoveBackground(args, down, cfg) ==
    IF ~cfg THEN Failure("remove.bg API key not configured")
    ELSE IF ~Truthy(DictGet(args, "image_url")) /\ ~Truthy(DictGet(args, "image_base64"))
         THEN Failure("Either image_url or image_base64 required")
    ELSE CASE down \in {"ok", "ok_empty"} ->
                <<KV("success", JBool(TRUE)), KV("image_base64", JStr("aGk="))>>
           [] down = "http_error" -> Failure(ApiErrorText)
           [] OTHER -> Failure(ExceptionText)

\* get_credits_balance()
GetCreditsBalance(down, cfg) ==
    IF ~cfg THEN Failure("Credentials not configured")
    ELSE CASE down = "ok" ->
                <<KV("success", JBool(TRUE)), KV("data", JRaw("{\"credits\": 5}"))>>
           [] down = "ok_empty" -> Failure(JsonErrorText)
           [] down = "http_error" -> Failure(ApiErrorText)
           [] OTHER -> Failure(ExceptionText)

\* the bodies of the slide-transform-mcp handlers
SlideHandler(t, args, down, cfg) ==
    CASE t = "vectorize_image" -> VectorizeImage(args, down, cfg)
      [] t = "remove_background" -> RemoveBackground(args, down, cfg)
      [] t = "analyze_slide_for_redesign" ->
           <<KV("success", JBool(TRUE)), KV("analysis_prompt", JStr("Analyze this slide")),
             KV("note", JStr("Use this prompt with Gemini MCP"))>>
      [] t = "extract_slide_elements" ->
           <<KV("success", JBool(TRUE)), KV("extraction_prompt", JStr("Extract all elements")),
             KV("note", JStr("Use this prompt with Gemini MCP"))>>
      [] OTHER -> GetCreditsBalance(down, cfg)

\* vectorize_image(**args) ... get_credits_balance()
SlideCall(t, r, down, cfg) ==
    IF t = "get_credits_balance" THEN Returned(SlideHandler(t, << >>, down, cfg))
    ELSE IF r.args = "scalar" THEN Raised("argument after ** must be a mapping")
    ELSE IF ~Binds(SlideSig(t), ReqArgs(r))
         THEN Raised(t \o "() got unexpected or missing keyword arguments")
    ELSE Returned(SlideHandler(t, ReqArgs(r), down, cfg))

\* the tools/call branch of a dispatcher that compares name in an if-chain
\* and wraps the result in a result envelope (slide-transform-mcp and
\* notebooklm-mcp/app.py)
IfChainCall(rid, r, resolved, call) ==
    IF r.params = "scalar" THEN DispatchFault(Fault500)    \* params.get raises
    ELSE IF resolved
         THEN IF call.raised
              THEN HandlerOutcome(Fault500, <<r.name>>, call)
              ELSE HandlerOutcome(
                       ResultEnvelope(rid, ContentResult(DumpsIndent2(call.result))),
                       <<r.name>>, call)
         ELSE \* result = {"error": "Unknown tool"}
              Outcome(ResultEnvelope(rid, ContentResult(DumpsIndent2(
                          <<KV("error", JStr("Unknown tool"))>>))),
                      << >>)

\* name == 'vectorize_image' ... name == 'get_credits_balance'
SlideResolves(r) == r.hasName /\ r.name \in SlideBranches

\* mcp_post of slide-transform-mcp
SlideMcpPost(r, down, cfg) ==
    IF r.body = "malformed" THEN DispatchFault(BadRequest400)
    ELSE IF r.body # "object" THEN DispatchFault(Fault500)
    ELSE LET method == IF r.hasMethod THEN r.method ELSE ""
             rid == ReqId(r)
         IN  CASE method = "initialize" ->
                    Outcome(ResultEnvelope(rid,
                                InitializeResult("slide-transform-mcp", "1.0.0", << >>)),
                            << >>)
               [] method = "tools/list" ->
                    Outcome(ResultEnvelope(rid, ToolsResult(SlideTools)), << >>)
               [] method = "tools/call" ->
                    IfChainCall(rid, r, SlideResolves(r), SlideCall(r.name, r, down, cfg))
               [] method = "ping" -> Outcome(ResultEnvelope(rid, EmptyResult), << >>)
               [] OTHER -> Outcome(MethodNotFound(rid), << >>)

-----------------------------------------------------------------------------
(* notebooklm-mcp/app.py *)

\* the bodies of create_notebook ... share_notebook:
\* {"success": r.ok, "data": r.json() if r.ok else r.text} inside one try
NbAppHandler(t, args, down, cfg) ==
    CASE down = "ok" ->
           <<KV("success", JBool(TRUE)),
             KV("data", IF t = "delete_notebook" THEN JStr("Deleted")
                        ELSE JRaw("{\"name\": \"n1\"}"))>>
      [] down = "ok_empty" ->
           IF t = "delete_notebook"
           THEN <<KV("success", JBool(TRUE)), KV("data", JStr("Deleted"))>>
           ELSE Failure(JsonErrorText)
      [] down = "http_error" ->
           <<KV("success", JBool(FALSE)), KV("data", JStr("Not Found"))>>
      [] OTHER -> Failure(ExceptionText)

\* create_notebook(**a) ... list_notebooks() ... share_notebook(**a)
NbAppCall(t, r, down, cfg) ==
    IF t = "list_notebooks" THEN Returned(NbAppHandler(t, << >>, down, cfg))
    ELSE IF r.args = "scalar" THEN Raised("argument after ** must be a mapping")
    ELSE IF ~Binds(NbAppSig(t), ReqArgs(r))
         THEN Raised(t \o "() got unexpected or missing keyword arguments")
    ELSE Returned(NbAppHandler(t, ReqArgs(r), down, cfg))

\* n=='create_notebook' ... n=='share_notebook'
NbAppResolves(r) == r.hasName /\ r.name \in NbAppBranches

\* mcp_post of notebooklm-mcp/app.py
NbAppMcpPost(r, down, cfg) ==
    IF r.body = "malformed" THEN DispatchFault(BadRequest400)
    ELSE IF r.body # "object" THEN DispatchFault(Fault500)
    ELSE LET method == IF r.hasMethod THEN r.method ELSE ""
             rid == ReqId(r)
         IN  CASE method = "initialize" ->
                    Outcome(ResultEnvelope(rid,
                                InitializeResult("notebooklm-mcp", "1.1.0", << >>)),
                            << >>)
               [] method = "tools/list" ->
                    Outcome(ResultEnvelope(rid, ToolsResult(NbAppTools)), << >>)
               [] method = "tools/call" ->
                    IfChainCall(rid, r, NbAppResolves(r), NbAppCall(r.name, r, down, cfg))
               [] method = "ping" -> Outcome(ResultEnvelope(rid, EmptyResult), << >>)
               [] OTHER -> Outcome(MethodNotFound(rid), << >>)

-----------------------------------------------------------------------------
(* notebooklm-mcp/server.py *)

\* list_notebooks() ... share_notebook(notebook_id, email, role); cfg says
\* get_access_token() yields a token
NbServerHandler(t, down, cfg) ==
    IF ~cfg THEN Failure("No access token available")
    ELSE CASE down = "ok" ->
                <<KV("success", JBool(TRUE)), KV("data", JRaw("{\"name\": \"n1\"}"))>>
           [] down = "ok_empty" ->
                IF t \in {"list_notebooks", "get_notebook"}
                THEN Failure(JsonErrorText)                  \* resp.json() raises
                ELSE <<KV("success", JBool(TRUE)), KV("data", JRaw("{}"))>>
           [] down = "http_error" ->
                <<KV("success", JBool(FALSE)), KV("data", JRaw("{\"error\": {}}"))>>
           [] OTHER -> Failure(ExceptionText)

\* execute_tool(tool_name, args); name is params.get("name", "")
ExecuteTool(name, r, down, cfg) ==
    IF name \in NbServerBranches
    THEN IF name # "list_notebooks" /\ r.args = "scalar"
         THEN Raised("object has no attribute 'get'")        \* args.get raises
         ELSE Returned(NbServerHandler(name, down, cfg))
    ELSE Returned(Failure("Unknown tool: " \o name))

\* mcp_handler of notebooklm-mcp/server.py; its bodies are bare:
\* jsonify({"tools": [...]}),
\* jsonify({"content": [{"type": "text", "text": json.dumps(result)}]}) and
\* jsonify({"error": f"Unknown method: {method}"}), 400
NbServerMcpHandler(r, down, cfg) ==
    IF r.body = "malformed" THEN DispatchFault(BadRequest400)
    ELSE IF r.body = "array" THEN DispatchFault(Fault500)   \* data.get raises
    ELSE LET method == IF r.body = "object" /\ r.hasMethod THEN r.method ELSE ""
         IN  CASE method = "tools/list" -> Outcome([BaseResp EXCEPT !.has = {"tools"}, !.tools = NbServerTools], << >>)
               [] method = "tools/call" ->
                    IF r.params = "scalar" THEN DispatchFault(Fault500)
                    ELSE LET name == IF r.hasName THEN r.name ELSE ""
                             call == ExecuteTool(name, r, down, cfg)
                             inv == IF name \in NbServerBranches THEN <<name>> ELSE << >>
                         IN  IF call.raised THEN HandlerOutcome(Fault500, inv, call)
                             ELSE HandlerOutcome(
                                      [BaseResp EXCEPT
                                          !.has = {"content"},
                                          !.content = <<TextBlock(DumpsCompact(call.result))>>],
                                      inv, call)
               [] OTHER ->
                    Outcome([BaseResp EXCEPT
                                !.status = 400, !.has = {"error"},
                                !.error = [isObject |-> FALSE, code |-> 0,
                                           message |-> "Unknown method: " \o method]],
                            << >>)

-----------------------------------------------------------------------------
(* simli-mcp *)

\* what simli_request returns: a dict, or (for the agent list) a JSON array
PyDict(d) == [isList |-> FALSE, d |-> d, len |-> 0]

\* simli_request(method, endpoint, data); without SIMLI_API_KEY the header
\* value is None and the requests call raises inside the try block
SimliRequest(httpMethod, endpoint, down, cfg) ==
    IF httpMethod \notin {"GET", "POST", "PUT", "DELETE"}
    THEN PyDict(<<KV("error", JStr("Unknown method: " \o httpMethod))>>)
    ELSE IF ~cfg THEN PyDict(<<KV("error", JStr("Header value must be str or bytes"))>>)
    ELSE CASE down = "ok" ->
                IF httpMethod = "GET" /\ endpoint = "/agents"
                THEN [isList |-> TRUE, d |-> << >>, len |-> 2]
                ELSE PyDict(<<KV("id", JStr("a1")), KV("name", JStr("Ava"))>>)
           [] down = "ok_empty" -> PyDict(<<KV("success", JBool(TRUE))>>)
           [] down = "http_error" -> PyDict(<<KV("error", JStr(ApiErrorText))>>)
           [] OTHER -> PyDict(<<KV("error", JStr(ExceptionText))>>)

\* the fields update_agent copies into its payload
UpdateFields == <<"name", "face_id", "prompt", "first_message", "voice_id",
                  "voice_provider", "max_idle_time", "max_session_length">>

\* handle_tool_call(tool_name, arguments); name is params.get("name")
HandleToolCall(name, r, down, cfg) ==
    LET args == ReqArgs(r)
        agent_id == DictGet(args, "agent_id")
    IN  CASE name = JStr("list_agents") ->
               LET result == SimliRequest("GET", "/agents", down, cfg)
               IN  IF result.isList
                   THEN Returned(<<KV("success", JBool(TRUE)), KV("agents", JRaw("[{}, {}]")),
                                   KV("count", JNum(result.len))>>)
                   ELSE Returned(result.d)
          [] name = JStr("get_agent") ->
               IF r.args = "scalar" THEN Raised("object has no attribute 'get'")
               ELSE IF ~Truthy(agent_id)
                    THEN Returned(<<KV("error", JStr("agent_id is required"))>>)
               ELSE Returned(SimliRequest("GET", "/agents/" \o PyStr(agent_id), down, cfg).d)
          [] name = JStr("update_agent") ->
               IF r.args = "scalar" THEN Raised("object has no attribute 'get'")
               ELSE IF ~Truthy(agent_id)
                    THEN Returned(<<KV("error", JStr("agent_id is required"))>>)
               ELSE Returned(SimliRequest("PUT", "/agents", down, cfg).d)
          [] name = JStr("create_agent") ->
               IF r.args = "scalar" THEN Raised("object has no attribute 'get'")
               ELSE Returned(SimliRequest("POST", "/agents", down, cfg).d)
          [] name = JStr("delete_agent") ->
               IF r.args = "scalar" THEN Raised("object has no attribute 'get'")
               ELSE IF ~Truthy(agent_id)
                    THEN Returned(<<KV("error", JStr("agent_id is required"))>>)
               ELSE Returned(SimliRequest("DELETE", "/agents/" \o PyStr(agent_id), down, cfg).d)
          [] name = JStr("list_faces") ->
               Returned(<<KV("success", JBool(TRUE)),
                          KV("note", JStr("These are commonly available preset faces.")),
                          KV("preset_faces", JRaw("[{}, {}]")),
                          KV("custom_faces_url", JStr("https://app.simli.com/create"))>>)
          [] OTHER -> Returned(<<KV("error", JStr("Unknown tool: " \o PyStr(name)))>>)

\* mutant: the except branch answers with the parse-error code
SimliInternalErrorAsParseError(msg) == ErrorEnvelope(JNull, -32700, msg)

\* the except branch of mcp_handler:
\* {"jsonrpc": "2.0", "id": None, "error": {"code": -32603, "message": str(e)}}
SimliInternalError(msg) == ErrorEnvelope(JNull, -32603, msg)

\* mcp_handler of simli-mcp
SimliMcpHandler(r, down, cfg) ==
    IF r.body = "malformed"
    THEN DispatchFault(SimliInternalError("400 Bad Request"))
    ELSE IF r.body # "object"
         THEN DispatchFault(SimliInternalError("object has no attribute 'get'"))
    ELSE LET method == IF r.hasMethod THEN JStr(r.method) ELSE JNull
             req_id == ReqId(r)
         IN  CASE method = JStr("initialize") ->
                    Outcome(ResultEnvelope(req_id,
                                InitializeResult("simli-mcp", "1.1.0",
                                                 <<KV("listChanged", JBool(FALSE))>>)),
                            << >>)
               [] method = JStr("tools/list") ->
                    Outcome(ResultEnvelope(req_id, ToolsResult(SimliTools)), << >>)
               [] method = JStr("tools/call") ->
                    IF r.params = "scalar"
                    THEN DispatchFault(SimliInternalError("object has no attribute 'get'"))
                    ELSE LET call == HandleToolCall(ReqName(r), r, down, cfg)
                             inv == IF r.hasName /\ r.name \in SimliBranches
                                    THEN <<r.name>> ELSE << >>
                         IN  IF call.raised
                             THEN HandlerOutcome(SimliInternalError(call.exc), inv, call)
                             ELSE HandlerOutcome(
                                      ResultEnvelope(req_id,
                                          ContentResult(DumpsIndent2(call.result))),
                                      inv, call)
               [] method = JStr("notifications/initialized") ->
                    Outcome([BaseResp EXCEPT !.status = 204, !.kind = "empty"],  \* return "", 204
                            << >>)
               [] OTHER ->
                    Outcome(ErrorEnvelope(req_id, -32601,
                                          "Unknown method: " \o PyStr(method)), << >>)

-----------------------------------------------------------------------------
(* GET /mcp *)

\* json.dumps of the notifications/initialized message mcp_sse sends
InitializedEvent(name, version) ==
    "{\"jsonrpc\": \"2.0\", \"method\": \"notifications/initialized\", "
    \o "\"params\": {\"serverInfo\": {\"name\": \"" \o name
    \o "\", \"version\": \"" \o version
    \o "\"}, \"capabilities\": {\"tools\": {}}}}"

\* the answer to a GET /mcp: status, mimetype, the bytes of the body, and
\* whether the connection is still open once the body has been sent
NoStream == [status |-> 0, mimetype |-> "", body |-> "", open |-> FALSE]

\* Response(body, mimetype='text/event-stream'): the body is one string, so
\* the response is complete, and the stream ends, when it has been sent
EventStream(body) ==
    [status |-> 200, mimetype |-> "text/event-stream", body |-> body, open |-> FALSE]

\* mcp_sse of figma-mcp: the f-string ends in \\n\\n, that is in the four
\* characters backslash, n, backslash, n, not in two line feeds
FigmaMcpSse ==
    EventStream("data: " \o InitializedEvent("figma-mcp", "1.0.0") \o "\\n\\n")

\* mcp_sse of vertex-ai-mcp
VertexMcpSse ==
    EventStream("data: " \o InitializedEvent("vertex-ai-mcp", "2.0.0") \o "\n\n")

\* mcp_sse of slide-transform-mcp
SlideMcpSse ==
    EventStream("data: " \o InitializedEvent("slide-transform-mcp", "1.0.0") \o "\n\n")

\* mcp_sse of notebooklm-mcp/app.py
NbAppMcpSse ==
    EventStream("data: " \o InitializedEvent("notebooklm-mcp", "1.1.0") \o "\n\n")

\* /mcp is routed for POST only (notebooklm-mcp/server.py, simli-mcp): the
\* framework answers a GET with 405 Method Not Allowed
MethodNotAllowed405 ==
    [status |-> 405, mimetype |-> "text/html", body |-> "", open |-> FALSE]

\* the number of events an SSE client dispatches from body: an event is
\* dispatched at each blank line, i.e. at each pair of line feeds
RECURSIVE BlankLines(_, _)
BlankLines(body, i) ==
    IF i >= Len(body) THEN 0
    ELSE (IF SubSeq(body, i, i + 1) = "\n\n" THEN 1 ELSE 0) + BlankLines(body, i + 1)

SseEvents(body) == BlankLines(body, 1)

-----------------------------------------------------------------------------
(* The downstream requests of a tool call *)

\* one HTTP request (or client RPC) a handler performs: the verb, the URL or
\* RPC name, and the payload as a flat dict
HttpCall(verb, url, body) == [verb |-> verb, url |-> url, body |-> body]

\* mutant: figma_request does not test FIGMA_TOKEN
FigmaRequestSentAlways(httpMethod, endpoint, data, cfg) ==
    IF httpMethod = "GET" THEN <<HttpCall("GET", endpoint, << >>)>>
    ELSE <<HttpCall("POST", endpoint, data)>>

\* the first line of figma_request and its if / elif / else over method
FigmaRequestSent(httpMethod, endpoint, data, cfg) ==
    IF ~cfg THEN << >>
    ELSE IF httpMethod = "GET" THEN <<HttpCall("GET", endpoint, << >>)>>
    ELSE IF httpMethod = "POST" THEN <<HttpCall("POST", endpoint, data)>>
    ELSE << >>

\* the endpoint each figma-mcp handler builds from its bound arguments
FigmaEndpoint(t, args) ==
    LET file_key == PyStr(DictGet(args, "file_key"))
    IN  CASE t = "get_file" ->
               "/files/" \o file_key \o "?depth="
                   \o PyStr(DictGetDefault(args, "depth", JNum(2)))
          [] t = "get_file_nodes" ->
               "/files/" \o file_key \o "/nodes?ids=" \o PyStr(DictGet(args, "node_ids"))
          [] t = "export_nodes" ->
               "/images/" \o file_key \o "?ids=" \o PyStr(DictGet(args, "node_ids"))
                   \o "&format=" \o PyStr(DictGetDefault(args, "format", JStr("png")))
                   \o "&scale=" \o PyStr(DictGetDefault(args, "scale", JNum(2)))
          [] t = "get_components" -> "/files/" \o file_key \o "/components"
          [] t = "get_styles" -> "/files/" \o file_key \o "/styles"
          [] t = "list_files" ->
               "/projects/" \o PyStr(DictGet(args, "project_id")) \o "/files"
          [] t = "list_projects" ->
               "/teams/" \o PyStr(DictGet(args, "team_id")) \o "/projects"
          [] t = "get_me" -> "/me"
          [] OTHER -> "/files/" \o file_key \o "/comments"

\* the requests a figma-mcp handler performs: one figma_request each
FigmaSent(t, args, cfg) ==
    IF t = "create_comment"
    THEN LET \* the data dict create_comment posts
             data == <<KV("message", DictGet(args, "message"))>>
                     \o (IF (DictGet(args, "x") # JNull /\ DictGet(args, "y") # JNull)
                            \/ Truthy(DictGet(args, "node_id"))
                         THEN <<KV("client_meta", JRaw("{}"))>> ELSE << >>)
         IN  FigmaRequestSent("POST", FigmaEndpoint(t, args), data, cfg)
    ELSE FigmaRequestSent("GET", FigmaEndpoint(t, args), << >>, cfg)

\* the requests a vertex-ai-mcp handler performs: none without its client
\* or (document_parse_pdf) without a processor id, else one client call
VertexSent(t, args, cfg, g) ==
    LET \* the client method each handler calls
        rpc ==
            CASE t \in {"gemini_generate", "gemini_analyze_image", "gemini_analyze_document"} ->
                   "generate_content"
              [] t = "gemini_chat" -> "send_message"
              [] t = "imagen_generate" -> "generate_images"
              [] t = "imagen_edit" -> "edit_image"
              [] t = "vision_ocr" -> "text_detection"
              [] t = "vision_detect_labels" -> "label_detection"
              [] t = "vision_detect_objects" -> "object_localization"
              [] t = "vision_detect_faces" -> "face_detection"
              [] t = "vision_detect_logos" -> "logo_detection"
              [] t = "document_parse_pdf" -> "process_document"
              [] OTHER -> "document_text_detection"
    IN
    IF t = "list_models" THEN << >>
    ELSE IF ~LazyClient(VertexSlot(t), cfg, g) THEN << >>
    ELSE IF t = "document_parse_pdf" /\ ~Truthy(DictGet(args, "processor_id"))
         THEN << >>
    ELSE <<HttpCall("RPC", rpc, << >>)>>

\* mutant: vectorize_image tests image_base64 before image_url
VectorizeImageSentBase64First(args, cfg) ==
    IF ~cfg THEN << >>
    ELSE IF Truthy(DictGet(args, "image_base64"))
         THEN <<HttpCall("POST", "https://api.vectorizer.ai/api/v1/vectorize",
                         <<KV("image", DictGet(args, "image_base64"))>>)>>
    ELSE IF Truthy(DictGet(args, "image_url"))
         THEN <<HttpCall("POST", "https://api.vectorizer.ai/api/v1/vectorize",
                         <<KV("image.url", DictGet(args, "image_url"))>>)>>
    ELSE << >>

\* the requests.post of vectorize_image: `if image_url:` is tested first,
\* `elif image_base64:` second
VectorizeImageSent(args, cfg) ==
    LET data == <<KV("output.file_format",
                     DictGetDefault(args, "output_format", JStr("svg"))),
                  KV("processing.mode",
                     DictGetDefault(args, "processing_mode", JStr("production")))>>
        url == "https://api.vectorizer.ai/api/v1/vectorize"
    IN  IF ~cfg THEN << >>
        ELSE IF Truthy(DictGet(args, "image_url"))
             THEN <<HttpCall("POST", url,
                             data \o <<KV("image.url", DictGet(args, "image_url"))>>)>>
        ELSE IF Truthy(DictGet(args, "image_base64"))
             THEN <<HttpCall("POST", url,
                             data \o <<KV("image", DictGet(args, "image_base64"))>>)>>
        ELSE << >>

\* the requests.post of remove_background
RemoveBackgroundSent(args, cfg) ==
    LET url == "https://api.remove.bg/v1.0/removebg"
    IN  IF ~cfg THEN << >>
        ELSE IF Truthy(DictGet(args, "image_url"))
             THEN <<HttpCall("POST", url,
                             <<KV("image_url", DictGet(args, "image_url")),
                               KV("size", JStr("auto"))>>)>>
        ELSE IF Truthy(DictGet(args, "image_base64"))
             THEN <<HttpCall("POST", url,
                             <<KV("image_file_b64", DictGet(args, "image_base64")),
                               KV("size", JStr("auto"))>>)>>
        ELSE << >>

\* the requests a slide-transform-mcp handler performs
SlideSent(t, args, cfg) ==
    CASE t = "vectorize_image" -> VectorizeImageSent(args, cfg)
      [] t = "remove_background" -> RemoveBackgroundSent(args, cfg)
      [] t = "get_credits_balance" ->
           IF cfg THEN <<HttpCall("GET", "https://api.vectorizer.ai/api/v1/account", << >>)>>
           ELSE << >>
      [] OTHER -> << >>

\* credentials.refresh(Request()): the token request of google-auth
TokenRefresh == HttpCall("POST", "https://oauth2.googleapis.com/token", << >>)

\* the requests a handler of notebooklm-mcp/app.py performs: get_headers()
\* refreshes the token when the credentials object exists and returns {}
\* when it does not; the API request is made in both cases
NbAppSent(t, args, cfg) ==
    LET \* the verb and path of each handler
        api ==
            LET nb == "/notebooks/" \o PyStr(DictGet(args, "notebook_id"))
            IN  CASE t = "create_notebook" ->
                       HttpCall("POST", "/notebooks", <<KV("title", DictGet(args, "title"))>>)
                  [] t = "get_notebook" -> HttpCall("GET", nb, << >>)
                  [] t = "list_notebooks" -> HttpCall("GET", "/notebooks:listRecentlyViewed", << >>)
                  [] t = "delete_notebook" -> HttpCall("DELETE", nb, << >>)
                  [] t = "share_notebook" ->
                       HttpCall("POST", nb \o ":share", <<KV("accountAndRoles", JRaw("[{}]"))>>)
                  [] OTHER ->
                       HttpCall("POST", nb \o "/sources:batchCreate",
                                <<KV("userContents", JRaw("[{}]"))>>)
    IN  (IF cfg THEN <<TokenRefresh>> ELSE << >>) \o <<api>>

\* the requests a handler of notebooklm-mcp/server.py performs:
\* get_access_token() refreshes the token; without one nothing is requested
NbServerSent(t, cfg) ==
    IF ~cfg THEN << >>
    ELSE <<TokenRefresh,
           HttpCall(CASE t \in {"list_notebooks", "get_notebook"} -> "GET"
                      [] t = "delete_notebook" -> "DELETE"
                      [] OTHER -> "POST",
                    t, << >>)>>

\* the requests.get / post / put / delete of simli_request; without
\* SIMLI_API_KEY the header value None is rejected before anything is sent
SimliRequestSent(httpMethod, endpoint, data, cfg) ==
    IF httpMethod \notin {"GET", "POST", "PUT", "DELETE"} THEN << >>
    ELSE IF ~cfg THEN << >>
    ELSE <<HttpCall(httpMethod, endpoint,
                    IF httpMethod \in {"POST", "PUT"} THEN data ELSE << >>)>>

RECURSIVE CopyFields(_, _, _)
\* for field in fields: if field in arguments and <test>: data[field] = ...
\* nonNull says the test is `is not None` (else truthiness)
CopyFields(fields, args, nonNull) ==
    IF Len(fields) = 0 THEN << >>
    ELSE LET f == Head(fields)
             copy == /\ HasKey(args, f)
                     /\ IF nonNull THEN Lookup(args, f) # JNull
                        ELSE Truthy(Lookup(args, f))
         IN  (IF copy THEN <<KV(f, Lookup(args, f))>> ELSE << >>)
             \o CopyFields(Tail(fields), args, nonNull)

\* mutant: update_agent forwards every argument
UpdateDataAll(args) == <<KV("id", DictGet(args, "agent_id"))>> \o args

\* update_data of update_agent
UpdateData(args) ==
    <<KV("id", DictGet(args, "agent_id"))>> \o CopyFields(UpdateFields, args, TRUE)

\* the requests handle_tool_call performs
HandleToolCallSent(name, args, cfg) ==
    LET agent_id == DictGet(args, "agent_id")
        \* create_data of create_agent
        create_data ==
            <<KV("name", DictGetDefault(args, "name", JStr("Untitled Agent"))),
              KV("face_id", DictGet(args, "face_id")),
              KV("voice_provider",
                 DictGetDefault(args, "voice_provider", JStr("elevenlabs")))>>
            \o CopyFields(<<"prompt", "first_message", "voice_id">>, args, FALSE)
    IN  CASE name = "list_agents" -> SimliRequestSent("GET", "/agents", << >>, cfg)
          [] name = "get_agent" ->
               IF ~Truthy(agent_id) THEN << >>
               ELSE SimliRequestSent("GET", "/agents/" \o PyStr(agent_id), << >>, cfg)
          [] name = "update_agent" ->
               IF ~Truthy(agent_id) THEN << >>
               ELSE SimliRequestSent("PUT", "/agents", UpdateData(args), cfg)
          [] name = "create_agent" ->
               SimliRequestSent("POST", "/agents", create_data, cfg)
          [] name = "delete_agent" ->
               IF ~Truthy(agent_id) THEN << >>
               ELSE SimliRequestSent("DELETE", "/agents/" \o PyStr(agent_id), << >>, cfg)
          [] OTHER -> << >>

\* the downstream requests of the request r that server s answered with
\* outcome o: those of the handler that ran, none when no handler ran or
\* the call raised while its arguments were bound
Downstream(s, r, o, cfg, g) ==
    IF ~(o.call.made /\ ~o.call.raised) THEN << >>
    ELSE LET t == Head(o.invoked)
             args == ReqArgs(r)
         IN  CASE s = "figma"    -> FigmaSent(t, args, cfg)
               [] s = "vertex"   -> VertexSent(t, args, cfg, g)
               [] s = "slide"    -> SlideSent(t, args, cfg)
               [] s = "nbapp"    -> NbAppSent(t, args, cfg)
               [] s = "nbserver" -> NbServerSent(t, cfg)
               [] OTHER          -> HandleToolCallSent(t, args, cfg)

-----------------------------------------------------------------------------
(* The state machine *)

\* the worker threads of the server process
Workers == {"w1", "w2"}

\* what a worker thread holds of the request it serves: the view function's
\* locals (req, and out once the method branch has run) and the response
Serving(pc, r, down, o, response) ==
    [pc |-> pc, req |-> r, down |-> down, out |-> o, resp |-> response]

Idle == Serving("idle", NoReq, "ok", Outcome(NoResp, << >>), NoResp)

\* the module-level names of vertex-ai-mcp that hold a lazily created client
VertexSlots == {"_vertexai_initialized", "_vision_client", "_documentai_client"}

\* the lazily created clients at import (_vertexai_initialized = False,
\* _vision_client = None, _documentai_client = None) and no thread inside
\* init_vertexai / get_vision_client / get_documentai_client.  slot[f] is 0
\* for False / None and k for the k-th object created for f; made[f] counts
\* the creations (vertexai.init calls, client constructions); fn[w] is the
\* function thread w is in or was last in, got[w] what it handed to w, and
\* n the number of calls begun.
NoClients ==
    [slot |-> [f \in VertexSlots |-> 0],
     made |-> [f \in VertexSlots |-> 0],
     pc   |-> [w \in Workers |-> "idle"],
     fn   |-> [w \in Workers |-> "_vertexai_initialized"],
     got  |-> [w \in Workers |-> 0],
     n    |-> 0]

\* the registry as the module leaves it once imported: the descriptor list
\* (MCP_TOOLS, TOOLS) and the names the tools/call branch resolves
Registry(s) == [tools |-> ToolList(s), handlers |-> Dispatchable(s)]

\* mutant: a tools/call consumes the descriptor of the tool it ran
RegistryAfterPop(reg, o) ==
    IF o.invoked = << >> THEN reg
    ELSE [reg EXCEPT !.tools = SelectSeq(reg.tools, LAMBDA t : t # Head(o.invoked))]

\* the registry once a request with outcome o has been served: no branch of
\* a dispatcher and no handler assigns to, appends to or removes from the
\* descriptor list, and tool_map is a literal rebuilt by each tools/call
RegistryAfter(reg, o) == reg

Init ==
    /\ srv \in Servers
    /\ configured \in BOOLEAN
    /\ req = NoReq
    /\ resp = NoResp
    /\ calls = [t \in Dispatchable(srv) |-> 0]
    /\ invoked = << >>
    /\ hcall = NoCall
    /\ fault = FALSE
    /\ nreq = 0
    /\ shared = {}
    /\ sse = NoStream
    /\ nsse = 0
    /\ flight = [w \in Workers |-> Idle]
    /\ registry = Registry(srv)
    /\ sent = << >>
    /\ lazy = NoClients

RECURSIVE Count(_, _)
\* how often t occurs in the sequence q
Count(q, t) == IF Len(q) = 0 THEN 0
               ELSE (IF Head(q) = t THEN 1 ELSE 0) + Count(Tail(q), t)

\* the POST /mcp view function of server s
Dispatch(s, r, down, cfg, g) ==
    CASE s = "figma"    -> FigmaMcpPost(r, down, cfg)
      [] s = "vertex"   -> VertexMcpPost(r, down, cfg, g)
      [] s = "slide"    -> SlideMcpPost(r, down, cfg)
      [] s = "nbapp"    -> NbAppMcpPost(r, down, cfg)
      [] s = "nbserver" -> NbServerMcpHandler(r, down, cfg)
      [] OTHER          -> SimliMcpHandler(r, down, cfg)

\* mutant: the slot is set before the client is known to have been created
SharedAfterAlways(s, o, cfg, g) ==
    IF o.call.made /\ ~o.call.raised /\ s = "vertex"
    THEN g \cup {VertexSlot(Head(o.invoked))}
    ELSE g

\* the module-level slots set once a request with outcome o has been served:
\* vertex-ai-mcp's handlers keep the client they created (global
\* _vertexai_initialized, _vision_client, _documentai_client), and
\* notebooklm-mcp/app.py's get_headers() refreshes the token of the
\* module-level credentials object
SharedAfter(s, o, cfg, g) ==
    IF o.call.made /\ ~o.call.raised /\ cfg
    THEN CASE s = "vertex" ->
                IF Head(o.invoked) = "list_models" THEN g
                ELSE g \cup {VertexSlot(Head(o.invoked))}
           [] s = "nbapp" -> g \cup {"credentials.token"}
           [] OTHER -> g
    ELSE g

\* mutant: the response object is kept in a module-level variable and
\* returned again for the next request
ExchangeStale(r, o) ==
    /\ req' = r
    /\ resp' = IF nreq > 0 THEN resp ELSE o.resp
    /\ invoked' = o.invoked
    /\ hcall' = o.call
    /\ fault' = o.fault
    /\ calls' = [t \in Dispatchable(srv) |-> calls[t] + Count(o.invoked, t)]
    /\ nreq' = nreq + 1
    /\ shared' = SharedAfter(srv, o, configured, shared)
    /\ registry' = RegistryAfter(registry, o)
    /\ sent' = Downstream(srv, r, o, configured, shared)
    /\ UNCHANGED <<srv, configured, sse, nsse, flight, lazy>>

\* one POST /mcp exchange: the request r is answered with outcome o
Exchange(r, o) ==
    /\ req' = r
    /\ resp' = o.resp
    /\ invoked' = o.invoked
    /\ hcall' = o.call
    /\ fault' = o.fault
    /\ calls' = [t \in Dispatchable(srv) |-> calls[t] + Count(o.invoked, t)]
    /\ nreq' = nreq + 1
    /\ shared' = SharedAfter(srv, o, configured, shared)
    /\ registry' = RegistryAfter(registry, o)
    /\ sent' = Downstream(srv, r, o, configured, shared)
    /\ UNCHANGED <<srv, configured, sse, nsse, flight, lazy>>

PostFigma ==
    /\ srv = "figma" /\ nreq < MaxRequests
    /\ \E r \in Requests("figma") : \E down \in DownFor(r) :
          Exchange(r, FigmaMcpPost(r, down, configured))

PostVertex ==
    /\ srv = "vertex" /\ nreq < MaxRequests
    /\ \E r \in Requests("vertex") : \E down \in DownFor(r) :
          Exchange(r, VertexMcpPost(r, down, configured, shared))

PostSlide ==
    /\ srv = "slide" /\ nreq < MaxRequests
    /\ \E r \in Requests("slide") : \E down \in DownFor(r) :
          Exchange(r, SlideMcpPost(r, down, configured))

PostNbApp ==
    /\ srv = "nbapp" /\ nreq < MaxRequests
    /\ \E r \in Requests("nbapp") : \E down \in DownFor(r) :
          Exchange(r, NbAppMcpPost(r, down, configured))

PostNbServer ==
    /\ srv = "nbserver" /\ nreq < MaxRequests
    /\ \E r \in Requests("nbserver") : \E down \in DownFor(r) :
          Exchange(r, NbServerMcpHandler(r, down, configured))

PostSimli ==
    /\ srv = "simli" /\ nreq < MaxRequests
    /\ \E r \in Requests("simli") : \E down \in DownFor(r) :
          Exchange(r, SimliMcpHandler(r, down, configured))

Next ==
    \/ PostFigma
    \/ PostVertex
    \/ PostSlide
    \/ PostNbApp
    \/ PostNbServer
    \/ PostSimli

\* sequential POST /mcp requests to one server process
Spec == Init /\ [][Next]_vars

-----------------------------------------------------------------------------
(* GET /mcp and POST /mcp on one server process *)

\* one GET /mcp exchange: the stream is answered with answer
Open(answer) ==
    /\ nsse < MaxStreams
    /\ sse' = answer
    /\ nsse' = nsse + 1
    /\ UNCHANGED <<srv, req, resp, calls, invoked, hcall, fault, nreq, configured,
                   shared, flight, registry, sent, lazy>>

GetFigma == srv = "figma" /\ Open(FigmaMcpSse)

GetVertex == srv = "vertex" /\ Open(VertexMcpSse)

GetSlide == srv = "slide" /\ Open(SlideMcpSse)

GetNbApp == srv = "nbapp" /\ Open(NbAppMcpSse)

GetNotRouted == srv \in {"nbserver", "simli"} /\ Open(MethodNotAllowed405)

\* a POST /mcp before, between or after streams; the requests sampled are
\* every method, and tools/call of the sampled names without arguments
SidePost ==
    /\ nreq < MaxRequests
    /\ \E r \in {q \in Requests(srv) :
                    q.body = "object" /\ q.hasId /\ q.id = JNum(7)
                    /\ q.params # "scalar" /\ q.args = "absent"} :
          Exchange(r, Dispatch(srv, r, "ok", configured, shared))

NextSse ==
    \/ GetFigma
    \/ GetVertex
    \/ GetSlide
    \/ GetNbApp
    \/ GetNotRouted
    \/ SidePost

SpecSse == Init /\ [][NextSse]_vars

-----------------------------------------------------------------------------
(* Concurrently served POST /mcp requests *)

\* the requests the worker threads serve: tools/list, and tools/call of the
\* sampled names without arguments, with two different ids
ConcRequests(s) ==
    {r \in Requests(s) :
        /\ r.body = "object" /\ r.hasId /\ r.id \in {JNum(7), JStr("abc")}
        /\ r.hasMethod /\ r.method \in {"tools/list", "tools/call"}
        /\ r.params # "scalar" /\ r.args = "absent"
        /\ (r.method = "tools/call" => r.hasName /\ r.name \in NameSamples(s))}


\* mutant: the request is kept in one module-level variable, which the
\* thread that received last has overwritten
SharedRequest(f, w) ==
    IF \E v \in Workers \ {w} : f[v].pc # "idle"
    THEN f[CHOOSE v \in Workers \ {w} : f[v].pc # "idle"].req
    ELSE f[w].req

\* data = request.get_json(): flask.request is bound to the request of the
\* calling thread
OwnRequest(f, w) == f[w].req

\* worker w receives a request
Receive(w) ==
    /\ flight[w].pc = "idle"
    /\ \E r \in ConcRequests(srv) : \E down \in DownFor(r) \cap {"ok", "exception"} :
          flight' = [flight EXCEPT ![w] =
                        Serving("received", r, down, Outcome(NoResp, << >>), NoResp)]
    /\ UNCHANGED <<srv, req, resp, calls, invoked, hcall, fault, nreq, configured,
                   shared, sse, nsse, registry, sent, lazy>>

\* worker w runs the method branch of its request, handler call included
Run(w) ==
    /\ flight[w].pc = "received"
    /\ LET o == Dispatch(srv, OwnRequest(flight, w), flight[w].down, configured, shared)
       IN  /\ flight' = [flight EXCEPT ![w] =
                            Serving("ran", flight[w].req, flight[w].down, o, NoResp)]
           /\ calls' = [t \in Dispatchable(srv) |-> calls[t] + Count(o.invoked, t)]
           /\ shared' = SharedAfter(srv, o, configured, shared)
           /\ registry' = RegistryAfter(registry, o)
    /\ UNCHANGED <<srv, req, resp, invoked, hcall, fault, nreq, configured, sse, nsse,
                   sent, lazy>>

\* worker w returns the body its view function built
Respond(w) ==
    /\ flight[w].pc = "ran"
    /\ flight' = [flight EXCEPT ![w] =
                     Serving("done", flight[w].req, flight[w].down, flight[w].out,
                             flight[w].out.resp)]
    /\ UNCHANGED <<srv, req, resp, calls, invoked, hcall, fault, nreq, configured,
                   shared, sse, nsse, registry, sent, lazy>>

NextConc ==
    \/ \E w \in Workers : Receive(w)
    \/ \E w \in Workers : Run(w)
    \/ \E w \in Workers : Respond(w)

SpecConc == Init /\ [][NextConc]_vars

-----------------------------------------------------------------------------
(* The lazily created clients of vertex-ai-mcp under concurrent tool calls *)

\* thread w enters init_vertexai / get_vision_client / get_documentai_client
\* (f names the slot) and runs its first statement, `if _slot: return _slot`:
\* it returns the cached object, or goes on to the try block
TestSlot(w, f) ==
    /\ srv = "vertex"
    /\ lazy.pc[w] = "idle" /\ lazy.n < MaxLazyCalls
    /\ lazy' = IF lazy.slot[f] # 0
               THEN [lazy EXCEPT !.fn[w] = f, !.got[w] = lazy.slot[f], !.n = @ + 1]
               ELSE [lazy EXCEPT !.fn[w] = f, !.pc[w] = "creating", !.n = @ + 1]
    /\ UNCHANGED <<srv, req, resp, calls, invoked, hcall, fault, nreq, configured,
                   shared, sse, nsse, flight, registry, sent>>

\* thread w runs the try block: it creates the client (vertexai.init, or the
\* client constructor), stores it in the slot and returns it; when the
\* creation raises, the slot is left alone and False / None is returned
CreateClient(w) ==
    /\ lazy.pc[w] = "creating"
    /\ LET f == lazy.fn[w]
           k == lazy.made[f] + 1
       IN  lazy' = IF configured
                   THEN [lazy EXCEPT !.made[f] = k, !.slot[f] = k, !.got[w] = k,
                                     !.pc[w] = "idle"]
                   ELSE [lazy EXCEPT !.got[w] = 0, !.pc[w] = "idle"]
    /\ UNCHANGED <<srv, req, resp, calls, invoked, hcall, fault, nreq, configured,
                   shared, sse, nsse, flight, registry, sent>>

NextLazy ==
    \/ \E w \in Workers : \E f \in VertexSlots : TestSlot(w, f)
    \/ \E w \in Workers : CreateClient(w)

SpecLazy == Init /\ [][NextLazy]_vars

-----------------------------------------------------------------------------
(* The tool functions of asana-mcp/server.py and asana-server.py, and the   *)
(* tools/call requests of the six dispatchers                              *)

\* the two FastMCP servers for Asana
AsanaServers == {"asana-mcp", "asana-server"}

\* the functions both register with @mcp.tool(), in source order
AsanaTools == <<"get_my_tasks", "create_task", "complete_task", "search_tasks",
                "get_projects", "get_project_tasks", "add_comment", "update_task">>

\* the if / elif / else over method of asana_request (asana-mcp/server.py)
AsanaRequestSent(method, endpoint, data) ==
    IF method \in {"GET", "POST", "PUT"} THEN <<HttpCall(method, endpoint, data)>>
    ELSE << >>

\* data of update_task in asana-mcp/server.py: the fields that are truthy
UpdateTaskData(args) == CopyFields(<<"name", "due_on", "notes", "assignee">>, args, FALSE)

\* the requests a tool function of asana-mcp/server.py performs
AsanaMcpSent(t, args) ==
    LET task == "tasks/" \o PyStr(DictGet(args, "task_id"))
        \* data of create_task
        data ==
            <<KV("name", DictGet(args, "name")), KV("workspace", JStr("373563495855656")),
              KV("assignee", DictGetDefault(args, "assignee", JStr("me")))>>
            \o (IF Truthy(DictGet(args, "project_id"))
                THEN <<KV("projects", JRaw("[]"))>> ELSE << >>)
            \o CopyFields(<<"due_on", "notes">>, args, FALSE)
    IN  CASE t = "get_my_tasks" -> AsanaRequestSent("GET", "tasks", << >>)
          [] t = "create_task" -> AsanaRequestSent("POST", "tasks", data)
          [] t = "complete_task" ->
               AsanaRequestSent("PUT", task, <<KV("completed", JBool(TRUE))>>)
          [] t = "search_tasks" ->
               AsanaRequestSent("GET", "workspaces/373563495855656/tasks/search", << >>)
          [] t = "get_projects" -> AsanaRequestSent("GET", "projects", << >>)
          [] t = "get_project_tasks" ->
               AsanaRequestSent("GET", "projects/" \o PyStr(DictGet(args, "project_id"))
                                           \o "/tasks", << >>)
          [] t = "add_comment" ->
               AsanaRequestSent("POST", task \o "/stories",
                                <<KV("text", DictGet(args, "text"))>>)
          [] OTHER ->
               IF Len(UpdateTaskData(args)) = 0 THEN << >>
               ELSE AsanaRequestSent("PUT", task, UpdateTaskData(args))

\* what a tool function of asana-mcp/server.py returns (json.dumps of it)
AsanaMcpResult(t, args, down) ==
    IF t = "update_task" /\ Len(UpdateTaskData(args)) = 0
    THEN Failure("No fields to update")
    ELSE CASE down = "ok" ->
                IF t \in {"get_my_tasks", "search_tasks", "get_project_tasks"}
                THEN <<KV("success", JBool(TRUE)), KV("tasks", JRaw("[]")),
                       KV("count", JNum(0))>>
                ELSE IF t = "get_projects"
                THEN <<KV("success", JBool(TRUE)), KV("projects", JRaw("[]")),
                       KV("count", JNum(0))>>
                ELSE IF t = "create_task"
                THEN <<KV("success", JBool(TRUE)), KV("message", JStr("Task created: N")),
                       KV("task_id", JStr("t1"))>>
                ELSE <<KV("success", JBool(TRUE)),
                       KV("message", JStr(CASE t = "complete_task" -> "Task marked complete"
                                            [] t = "add_comment" -> "Comment added"
                                            [] OTHER -> "Task updated"))>>
           [] down = "http_error" -> Failure("HTTP 404: Not Found")
           [] OTHER -> Failure(ExceptionText)

\* the requests a tool function of asana-server.py performs: get_my_tasks
\* and create_task first GET /users/me; update_task PUTs whatever fields it
\* collected.  down = "exception" says the first request raised.
AsanaServerSent(t, args, down) ==
    LET task == "/tasks/" \o PyStr(DictGet(args, "task_id"))
        me == HttpCall("GET", "/users/me", << >>)
    IN  CASE t = "get_my_tasks" ->
               <<me>> \o (IF down = "exception" THEN << >>
                          ELSE <<HttpCall("GET", "/tasks", << >>)>>)
          [] t = "create_task" ->
               <<me>> \o (IF down = "exception" THEN << >>
                          ELSE <<HttpCall("POST", "/tasks",
                                          <<KV("name", DictGet(args, "name")),
                                            KV("notes", DictGetDefault(args, "notes", JStr("")))>>
                                          \o CopyFields(<<"due_on">>, args, FALSE))>>)
          [] t = "complete_task" ->
               <<HttpCall("PUT", task, <<KV("completed", JBool(TRUE))>>)>>
          [] t = "search_tasks" ->
               <<HttpCall("GET", "/workspaces/373563495855656/tasks/search", << >>)>>
          [] t = "get_projects" -> <<HttpCall("GET", "/projects", << >>)>>
          [] t = "get_project_tasks" ->
               <<HttpCall("GET", "/projects/" \o PyStr(DictGet(args, "project_id"))
                                     \o "/tasks", << >>)>>
          [] t = "add_comment" ->
               <<HttpCall("POST", task \o "/stories", <<KV("text", DictGet(args, "text"))>>)>>
          [] OTHER ->
               <<HttpCall("PUT", task,
                          CopyFields(<<"name", "notes", "due_on", "assignee">>, args, FALSE))>>

\* what a tool function of asana-server.py returns: the status of the
\* answer is not looked at, so every answer with a JSON body is a success
AsanaServerResult(t, args, down) ==
    IF down = "exception" THEN Failure(ExceptionText)
    ELSE <<KV("success", JBool(TRUE)),
           KV(CASE t \in {"get_my_tasks", "search_tasks", "get_project_tasks"} -> "tasks"
                [] t = "get_projects" -> "projects"
                [] t = "add_comment" -> "story"
                [] OTHER -> "task",
              JRaw("{}"))>>

\* the tool calls sampled for the Asana servers: update_task with and
\* without fields to update, every other tool with the arguments it declares
AsanaCallSamples ==
    { [tool |-> "update_task", args |-> a] :
        a \in { <<KV("task_id", JStr("t1"))>>,
                <<KV("task_id", JStr("t1")), KV("name", JStr("N"))>>,
                <<KV("task_id", JStr("t1")), KV("name", JStr("")), KV("notes", JNull)>>,
                <<KV("task_id", JStr("t1")), KV("notes", JStr("n")),
                  KV("due_on", JStr("2026-01-01"))>> } }
    \cup
    { [tool |-> "get_my_tasks", args |-> << >>],
      [tool |-> "create_task", args |-> <<KV("name", JStr("N"))>>],
      [tool |-> "complete_task", args |-> <<KV("task_id", JStr("t1"))>>],
      [tool |-> "search_tasks", args |-> <<KV("query", JStr("q"))>>],
      [tool |-> "get_projects", args |-> << >>],
      [tool |-> "get_project_tasks", args |-> <<KV("project_id", JStr("p1"))>>],
      [tool |-> "add_comment",
       args |-> <<KV("task_id", JStr("t1")), KV("text", JStr("hi"))>>] }

\* a process of one of the eight servers after startup
InitTools ==
    /\ srv \in Servers \cup AsanaServers
    /\ configured \in BOOLEAN
    /\ req = NoReq
    /\ resp = NoResp
    /\ registry = IF srv \in AsanaServers
                  THEN [tools |-> AsanaTools, handlers |-> SeqToSet(AsanaTools)]
                  ELSE Registry(srv)
    /\ calls = [t \in registry.handlers |-> 0]
    /\ invoked = << >>
    /\ hcall = NoCall
    /\ fault = FALSE
    /\ nreq = 0
    /\ shared = {}
    /\ sse = NoStream
    /\ nsse = 0
    /\ flight = [w \in Workers |-> Idle]
    /\ sent = << >>
    /\ lazy = NoClients

\* a POST /mcp with a tools/call to one of the six dispatchers; the
\* requests sampled have a mapping for params and the id 7
CallTool ==
    /\ srv \in Servers /\ nreq < MaxRequests
    /\ \E r \in {q \in CallRequests(srv) :
                    q.hasId /\ q.id = JNum(7) /\ q.params = "map"} :
       \E down \in DownFor(r) :
          Exchange(r, Dispatch(srv, r, down, configured, shared))

\* the MCP SDK calls a tool function of an Asana server with the arguments
\* of a tools/call; the transport and the response are the SDK's
CallAsana ==
    /\ srv \in AsanaServers /\ nreq < MaxRequests
    /\ \E c \in AsanaCallSamples : \E down \in {"ok", "http_error", "exception"} :
          /\ req' = Request("object", TRUE, JNum(7), TRUE, "tools/call", "map",
                            TRUE, c.tool, "map", c.args)
          /\ invoked' = <<c.tool>>
          /\ hcall' = Returned(IF srv = "asana-mcp"
                               THEN AsanaMcpResult(c.tool, c.args, down)
                               ELSE AsanaServerResult(c.tool, c.args, down))
          /\ sent' = IF srv = "asana-mcp" THEN AsanaMcpSent(c.tool, c.args)
                     ELSE AsanaServerSent(c.tool, c.args, down)
          /\ calls' = [calls EXCEPT ![c.tool] = @ + 1]
    /\ fault' = FALSE
    /\ nreq' = nreq + 1
    /\ UNCHANGED <<srv, resp, configured, shared, sse, nsse, flight, registry, lazy>>

NextTools ==
    \/ CallTool
    \/ CallAsana

\* tool calls to one server process
SpecTools == InitTools /\ [][NextTools]_vars

-----------------------------------------------------------------------------
(* Properties *)

\* a request has been answered
Answered == nreq > 0

\* the last request was a JSON object
ObjectRequest == req.body = "object"

\* the dispatcher wrote a JSON body (not the framework's error page, not 204)
JsonBody == resp.kind = "json"

\* the last request was a tools/call
IsToolsCall == ObjectRequest /\ req.hasMethod /\ req.method = "tools/call"

\* the five methods the specification names
FiveMethods == {"initialize", "tools/list", "tools/call",
                "notifications/initialized", "ping"}

\* the content blocks of the reply, wherever the body carries them
ReplyContent == IF "result" \in resp.has THEN resp.result.content ELSE resp.content

\* the reply carries exactly one text block
OneTextBlock == Len(ReplyContent) = 1 /\ ReplyContent[1].type = "text"

\* a tools/call naming a tool the server does not dispatch
IsUnregisteredCall ==
    IsToolsCall /\ req.params = "map" /\ req.hasName
                /\ req.name \notin Dispatchable(srv)

\* a tools/call whose params mapping has no name
IsCallWithoutName == IsToolsCall /\ req.params = "map" /\ ~req.hasName

\* a request with a method that is none of the five
IsUnknownMethod == ObjectRequest /\ req.hasMethod /\ req.method \notin FiveMethods

\* a handler's return value of the form {success: false, error: x}
IsFailureMapping(d) ==
    /\ HasKey(d, "success") /\ Lookup(d, "success") = JBool(FALSE)
    /\ HasKey(d, "error")

\* C1's valid requests: a JSON object, method initialize, tools/list,
\* tools/call, ping or an unknown one, params (and arguments) a mapping
C1_ValidRequest ==
    /\ ObjectRequest /\ req.hasMethod
    /\ req.method \in {"initialize", "tools/list", "tools/call", "ping", "resources/list"}
    /\ req.params # "scalar" /\ req.args # "scalar"

\* C1 (as claimed): every body returned for a valid request carries an id
\* member equal to the request's id (null when the request has none).
C1_IdEchoed ==
    (Answered /\ C1_ValidRequest /\ JsonBody)
        => ("id" \in resp.has /\ resp.id = ReqId(req))

\* C2: a handler's call counter grows only by one, and only on a tools/call
\* that names that handler; a tools/call whose name is not registered (or is
\* missing) invokes no handler and leaves every counter unchanged.
C2_UnregisteredNeverInvokes ==
    [][ /\ \A t \in DOMAIN calls :
              calls'[t] # calls[t] =>
                  /\ calls'[t] = calls[t] + 1
                  /\ req'.body = "object" /\ req'.hasMethod
                  /\ req'.method = "tools/call"
                  /\ req'.hasName /\ req'.name = t
        /\ (/\ req'.method = "tools/call"
            /\ ~(req'.hasName /\ req'.name \in Dispatchable(srv)))
              => (invoked' = << >> /\ calls' = calls /\ ~hcall'.made)
      ]_vars

\* C2 witness: after a call that reached a handler, a call of "nope" has
\* been answered without invoking anything.
C2_Witness ==
    /\ nreq = 2 /\ IsUnregisteredCall /\ req.name = "nope"
    /\ invoked = << >>
    /\ \E t \in DOMAIN calls : calls[t] = 1

WellFormedEnvelope ==
    /\ JsonBody
    /\ "jsonrpc" \in resp.has /\ resp.jsonrpc = "2.0"
    /\ "id" \in resp.has
    /\ ("result" \in resp.has) # ("error" \in resp.has)

\* C4 (as claimed): when the handler call of a tools/call raises, the
\* request is still answered with one complete JSON-RPC envelope.
C4_HandlerFaultAnswered ==
    (Answered /\ hcall.raised) => WellFormedEnvelope

\* C5 (as claimed): when the handler call of a tools/call raises, the reply
\* is a result envelope whose text block describes the fault, never an error
\* envelope.
C5_HandlerFaultIsResult ==
    (Answered /\ hcall.raised)
        => /\ JsonBody /\ "result" \in resp.has /\ "error" \notin resp.has
           /\ OneTextBlock
           /\ Contains(ReplyContent[1].text, hcall.exc)

\* C6 (as claimed): when the handler returns {success: false, error: x}, the
\* reply is a JSON-RPC result envelope, not an error envelope, whose single
\* text block is the serialisation of that mapping and contains
\* "success": false.
C6_FailureMappingIsResultEnvelope ==
    (Answered /\ hcall.made /\ ~hcall.raised /\ IsFailureMapping(hcall.result))
        => /\ JsonBody /\ resp.has = {"jsonrpc", "id", "result"}
           /\ Len(resp.result.content) = 1
           /\ resp.result.content[1].type = "text"
           /\ resp.result.content[1].text
                 \in {DumpsIndent2(hcall.result), DumpsCompact(hcall.result)}
           /\ Contains(resp.result.content[1].text, "\"success\": false")

\* C7 (as claimed): every JSON body a dispatcher writes has exactly one of
\* the members result and error.
C7_ExactlyOneOfResultError ==
    (Answered /\ JsonBody) => (("result" \in resp.has) # ("error" \in resp.has))

\* C8 (as claimed): every JSON body a dispatcher writes has jsonrpc "2.0"
\* and the id of the request it answers.
C8_JsonrpcAndOriginalId ==
    (Answered /\ JsonBody)
        => /\ "jsonrpc" \in resp.has /\ resp.jsonrpc = "2.0"
           /\ "id" \in resp.has /\ resp.id = ReqId(req)

C11_DecodeErrorsHaveStandardCodes ==
    Answered =>
        /\ (req.body = "malformed"
              => /\ JsonBody /\ "error" \in resp.has /\ resp.error.code = -32700
                 /\ invoked = << >>)
        /\ ((ObjectRequest /\ ~req.hasMethod)
              => /\ JsonBody /\ "error" \in resp.has /\ resp.error.code = -32600
                 /\ invoked = << >>)

\* C12 (as claimed): a notifications/initialized request, whatever its id
\* and params, is never answered with an error: the answer is an empty
\* success or no content.
C12_NotificationNeverErrors ==
    (Answered /\ ObjectRequest /\ req.hasMethod
              /\ req.method = "notifications/initialized")
        => /\ resp.status \in {200, 204}
           /\ "error" \notin resp.has

\* C13 (as claimed): at every position of a sequence of requests, initialize
\* is answered with the fixed capability result and ping with the empty
\* result, and neither changes the handlers' call counters or the
\* module-level slots.
C13_InitializeAndPingStable ==
    [][ (req'.body = "object" /\ req'.hasMethod
            /\ req'.method \in {"initialize", "ping"} /\ nreq' = nreq + 1)
          => /\ resp'.kind = "json" /\ resp'.has = {"jsonrpc", "id", "result"}
             /\ (req'.method = "initialize"
                   => /\ resp'.result.kind = "initialize"
                      /\ resp'.result.protocolVersion = "2024-11-05")
             /\ (req'.method = "ping" => resp'.result = EmptyResult)
             /\ calls' = calls /\ shared' = shared
      ]_vars

\* the last request was a tools/list
IsToolsList == ObjectRequest /\ req.hasMethod /\ req.method = "tools/list"

\* the tool descriptors of the reply, wherever the body carries them
ListedTools == IF "result" \in resp.has THEN resp.result.tools ELSE resp.tools

\* C14: whatever requests were served before (tools/call included) and
\* whatever its id and params, a tools/list is answered with the server's
\* list of tool descriptors, complete and in the order of the registry.
C14_ToolsListStable ==
    (Answered /\ IsToolsList)
        => /\ JsonBody /\ resp.status = 200
           /\ ListedTools = ToolList(srv)

\* C14 witness: a tools/list served after a tools/call that invoked a
\* handler returned the full list.
C14_Witness ==
    /\ nreq = 2 /\ IsToolsList
    /\ \E t \in DOMAIN calls : calls[t] = 1
    /\ Len(ListedTools) > 2 /\ ListedTools = ToolList(srv)

\* C15: the names tools/list returns are exactly the names for which
\* tools/call reaches a handler: a tools/call with a name invokes a handler
\* if and only if the name is listed.
C15_ListIsRegistry ==
    /\ SeqToSet(ToolList(srv)) = Dispatchable(srv)
    /\ (Answered /\ IsToolsList) => SeqToSet(ListedTools) = Dispatchable(srv)
    /\ (Answered /\ IsToolsCall /\ req.params = "map" /\ req.hasName)
          => ((invoked # << >>) <=> (req.name \in SeqToSet(ToolList(srv))))

\* C15 witness: vertex-ai-mcp has invoked the handler of its last listed
\* tool.
C15_Witness ==
    /\ Answered /\ IsToolsCall /\ srv = "vertex"
    /\ req.name = "list_models" /\ invoked = <<"list_models">>
    /\ req.name = ToolList(srv)[Len(ToolList(srv))]

\* the body is one complete SSE frame: a data line closed by a blank line
CompleteFrame(body) ==
    /\ Len(body) > 8
    /\ SubSeq(body, 1, 6) = "data: "
    /\ SubSeq(body, Len(body) - 1, Len(body)) = "\n\n"

\* C16 (as claimed): a GET /mcp that opens a stream is answered, whether or
\* not requests were POSTed before, with exactly one complete SSE frame: a
\* notifications/initialized event with the server's identity and
\* capabilities.
C16_OneCompleteInitializedEvent ==
    (nsse > 0 /\ sse.status = 200)
        => /\ sse.mimetype = "text/event-stream"
           /\ CompleteFrame(sse.body)
           /\ SseEvents(sse.body) = 1
           /\ Contains(sse.body, "\"method\": \"notifications/initialized\"")
           /\ Contains(sse.body, "\"serverInfo\"")
           /\ Contains(sse.body, "\"capabilities\"")

\* C17 (as claimed): a stream that was opened stays open, and the reply to
\* every request POSTed after it was opened is pushed on it as a further
\* event.
C17_StreamStaysOpenAndCarriesReplies ==
    [][ /\ (sse'.status = 200 => sse'.open)
        /\ ((sse.status = 200 /\ nreq' = nreq + 1)
              => SseEvents(sse'.body) = SseEvents(sse.body) + 1)
      ]_vars

\* C18: every POST /mcp is answered with one body, after at most one
\* handler call, and the answer is the one a freshly started process gives
\* to the same request: nothing left behind by earlier requests (call
\* counters, module-level slots, the previous request or response) changes it.
C18_OneBodyNoSurvivingState ==
    Answered =>
        /\ resp.kind \in {"json", "html", "empty"}
        /\ Len(invoked) <= 1
        /\ \E down \in DownFor(req) :
              LET fresh == Dispatch(srv, req, down, configured, {})
              IN  /\ resp = fresh.resp
                  /\ invoked = fresh.invoked
                  /\ hcall = fresh.call

\* C18 witness: vertex-ai-mcp has served the same tool twice; the second
\* call found the client slot the first one had set, and was answered with a
\* result envelope.
C18_Witness ==
    /\ nreq = 2 /\ srv = "vertex" /\ IsToolsCall
    /\ hcall.made /\ ~hcall.raised
    /\ calls[req.name] = 2
    /\ VertexSlot(req.name) \in shared
    /\ resp.has = {"jsonrpc", "id", "result"}

\* C19: whatever the interleaving of the worker threads, the response a
\* thread returns is the one its own request gets when served alone; if it
\* has an id, that is the id of the thread's own request, never the different
\* id of a request another thread is serving, also when that other request's
\* handler failed.
C19_NoCrossTalk ==
    \A w \in Workers :
        flight[w].pc = "done" =>
            LET own == flight[w].req
                alone == Dispatch(srv, own, flight[w].down, configured, {})
            IN  /\ flight[w].resp = alone.resp
                /\ ("id" \in flight[w].resp.has => flight[w].resp.id = ReqId(own))
                /\ \A v \in Workers \ {w} :
                      (/\ flight[v].pc # "idle"
                       /\ "id" \in flight[w].resp.has
                       /\ ReqId(flight[v].req) # ReqId(own))
                          => flight[w].resp.id # ReqId(flight[v].req)

\* C19 witness: two threads have served requests with different ids; the
\* handler call of one raised, and the other returned a result envelope with
\* its own id.
C19_Witness ==
    \E w \in Workers : \E v \in Workers \ {w} :
        /\ flight[w].pc = "done" /\ flight[v].pc = "done"
        /\ ReqId(flight[w].req) # ReqId(flight[v].req)
        /\ flight[v].out.call.raised
        /\ flight[w].resp.has = {"jsonrpc", "id", "result"}
        /\ flight[w].resp.id = ReqId(flight[w].req)

\* C20 (as claimed): no request writes a module-level variable that a later
\* request reads.
C20_NoSharedMutableState == shared = {}

\* the module-level slots requests of server s write
SharedSlots(s) ==
    CASE s = "vertex" -> {"_vertexai_initialized", "_vision_client", "_documentai_client"}
      [] s = "nbapp"  -> {"credentials.token"}
      [] OTHER        -> {}

\* C20 (amended): requests share, besides the registry, the module-level
\* client slots of vertex-ai-mcp and the credentials token of
\* notebooklm-mcp/app.py.  A slot is written only by a tools/call whose
\* handler ran, and only when the client could be created; it is never
\* reset.  The other four servers share nothing.
C20_SharedStateIsLazyClients ==
    [][ /\ shared \subseteq shared'
        /\ shared' \subseteq SharedSlots(srv)
        /\ (shared' # shared
              => /\ configured
                 /\ req'.method = "tools/call"
                 /\ hcall'.made /\ ~hcall'.raised)
      ]_vars

\* C20 witness: two requests to vertex-ai-mcp have left two client slots set.
C20_Witness ==
    /\ nreq = 2 /\ srv = "vertex"
    /\ shared = {"_vertexai_initialized", "_documentai_client"}

\* C21: the registry (descriptor list and dispatchable names) is the one the
\* module built at startup and no request changes it: whatever the request
\* (initialize, tools/list, tools/call, ping, an unknown method, a body that
\* is not an object), the registry after it equals the registry before it,
\* and a tools/list answer lists exactly the registry's descriptors in order.
C21_RegistryUnchanged ==
    [][ /\ registry' = registry
        /\ registry' = Registry(srv)
        /\ ((nreq' = nreq + 1 /\ req'.body = "object" /\ req'.hasMethod
             /\ req'.method = "tools/list")
              => ListedTools' = registry.tools)
      ]_vars

\* C21 witness: after a tools/call that ran a handler, a tools/list still
\* lists the whole startup registry.
C21_Witness ==
    /\ nreq = 2 /\ IsToolsList
    /\ \E t \in DOMAIN calls : calls[t] = 1
    /\ ListedTools = ToolList(srv)
    /\ registry = Registry(srv)

\* C22: nothing is retried.  A tools/call that resolves a handler invokes
\* that handler exactly once and no other handler, also when the call raises
\* or returns a failure mapping; every other request invokes none.
C22_NoRetry ==
    [][ nreq' = nreq + 1 =>
          IF /\ req'.body = "object" /\ req'.hasMethod /\ req'.method = "tools/call"
             /\ req'.params # "scalar"
             /\ req'.hasName /\ req'.name \in Dispatchable(srv)
          THEN /\ invoked' = <<req'.name>>
               /\ calls'[req'.name] = calls[req'.name] + 1
               /\ \A t \in DOMAIN calls \ {req'.name} : calls'[t] = calls[t]
          ELSE invoked' = << >> /\ calls' = calls
      ]_vars

\* C22 witness: a handler call raised, the request was answered, and the
\* handler has been invoked once.
C22_Witness ==
    /\ nreq = 1 /\ IsToolsCall
    /\ hcall.made /\ hcall.raised
    /\ invoked = <<req.name>>
    /\ calls[req.name] = 1

\* C23: a request without an id member is answered as the same request with
\* "id": null is, and a request without a params member as the same request
\* with "params": {} is; a tools/call without params raises nothing: it is
\* answered with status 200 and a JSON body.
C23_MissingIdAndParamsDefault ==
    (Answered /\ ObjectRequest) =>
        /\ ~req.hasId =>
              \E down \in DownFor(req) :
                  LET o == Dispatch(srv, [req EXCEPT !.hasId = TRUE, !.id = JNull],
                                    down, configured, {})
                  IN  resp = o.resp /\ invoked = o.invoked /\ hcall = o.call
        /\ req.params = "absent" =>
              LET o == Dispatch(srv, [req EXCEPT !.params = "map"], "ok", configured, {})
              IN  /\ resp = o.resp /\ invoked = o.invoked /\ hcall = o.call
                  /\ (req.hasMethod /\ req.method = "tools/call")
                        => /\ ~fault /\ ~hcall.raised
                           /\ resp.status = 200 /\ resp.kind = "json"

\* C23 witness: a tools/call without params has been answered with one text
\* block.
C23_Witness ==
    /\ Answered /\ IsToolsCall /\ req.params = "absent"
    /\ ~fault /\ resp.status = 200 /\ OneTextBlock

\* C24 (as claimed): every handler call returns a mapping (it does not
\* raise) that has a boolean "success" member, and a mapping whose success
\* is not true is of the form {success: false, error: <text>}.
C24_HandlerResultHasSuccess ==
    (Answered /\ hcall.made) =>
        /\ ~hcall.raised
        /\ HasKey(hcall.result, "success")
        /\ Lookup(hcall.result, "success") \in {JBool(TRUE), JBool(FALSE)}
        /\ (Lookup(hcall.result, "success") = JBool(FALSE)
              => IsFailureMapping(hcall.result))

\* no element occurs twice in the sequence q
NoDuplicates(q) == \A i, j \in 1..Len(q) : q[i] = q[j] => i = j

\* C25: within a server no two descriptors of the registry have the same
\* name, so no tools/list answer names a tool twice; every listed name has
\* one handler, and a tools/call that runs a handler runs the one registered
\* under the requested name.
C25_ToolNamesUnique ==
    /\ NoDuplicates(registry.tools)
    /\ Cardinality(registry.handlers) = Len(registry.tools)
    /\ (Answered /\ IsToolsList /\ JsonBody) => NoDuplicates(ListedTools)
    /\ (Answered /\ hcall.made) => invoked = <<req.name>>

\* C25 witness: vertex-ai-mcp has listed its fourteen tools after having
\* run one of them.
C25_Witness ==
    /\ nreq = 2 /\ srv = "vertex" /\ IsToolsList
    /\ Len(ListedTools) = 14
    /\ \E t \in DOMAIN calls : calls[t] = 1

\* C26: in simli-mcp every exception raised while a request is handled (a
\* body that is not JSON or not an object, params or arguments that are not
\* a mapping where the code calls .get on them) is answered with status 200
\* and the error envelope of code -32603 whose id is null, also when the
\* request carried an id.
C26_SimliExceptionHasNullId ==
    (Answered /\ srv = "simli" /\ (fault \/ hcall.raised)) =>
        /\ resp.status = 200 /\ resp.kind = "json"
        /\ resp.has = {"jsonrpc", "id", "error"}
        /\ resp.error.isObject /\ resp.error.code = -32603
        /\ resp.id = JNull

\* C26 witness: a tools/call with id 7 whose arguments were not a mapping
\* made handle_tool_call raise, and the answer's id is null.
C26_Witness ==
    /\ Answered /\ srv = "simli" /\ IsToolsCall
    /\ req.hasId /\ req.id = JNum(7)
    /\ req.args = "scalar" /\ hcall.raised
    /\ resp.error.code = -32603 /\ resp.id = JNull

\* C27 (as claimed): for every interleaving of the threads, once a slot is
\* set (_vertexai_initialized is True, a client is cached) it stays set, no
\* later step creates again (vertexai.init or a client constructor runs at
\* most once after the first success), and the cached object stays the same.
C27_InitialisedOnce ==
    [][ \A f \in VertexSlots :
          lazy.slot[f] # 0 =>
              /\ lazy'.slot[f] # 0
              /\ lazy'.made[f] = lazy.made[f]
              /\ lazy'.slot[f] = lazy.slot[f]
      ]_vars

\* a tools/call whose handler ran to its return
ToolRan == Answered /\ IsToolsCall /\ hcall.made /\ ~hcall.raised

\* the tool call failed the handler's own validation: simli get_agent /
\* update_agent / delete_agent without a non-empty agent_id, any figma tool
\* without FIGMA_TOKEN, update_task of asana-mcp/server.py without a field
LocallyInvalid ==
    \/ /\ srv = "simli"
       /\ req.name \in {"get_agent", "update_agent", "delete_agent"}
       /\ ~Truthy(DictGet(ReqArgs(req), "agent_id"))
    \/ srv = "figma" /\ ~configured
    \/ /\ srv = "asana-mcp" /\ req.name = "update_task"
       /\ \A f \in {"name", "due_on", "notes", "assignee"} :
             ~Truthy(DictGet(ReqArgs(req), f))

SendsTwo ==
    \/ srv = "nbapp" /\ configured
    \/ srv = "nbserver" /\ configured
    \/ srv = "asana-server" /\ req.name \in {"get_my_tasks", "create_task"}

C29_UpdatePayloadIsWhitelisted ==
    (ToolRan /\ srv = "simli" /\ req.name = "update_agent" /\ Len(sent) > 0) =>
        LET args == ReqArgs(req)
            body == sent[1].body
        IN  /\ Len(sent) = 1 /\ sent[1].verb = "PUT" /\ sent[1].url = "/agents"
            /\ Keys(body) = {"id"} \cup {f \in SeqToSet(UpdateFields) :
                                            HasKey(args, f) /\ Lookup(args, f) # JNull}
            /\ Len(body) = Cardinality(Keys(body))
            /\ Lookup(body, "id") = Lookup(args, "agent_id")
            /\ \A f \in Keys(body) \ {"id"} : Lookup(body, f) = Lookup(args, f)

\* C29 witness: update_agent was called with agent_id, a name, a null
\* prompt and a key that is not whitelisted; id and name were sent.
C29_Witness ==
    /\ ToolRan /\ srv = "simli" /\ req.name = "update_agent"
    /\ HasKey(req.argmap, "bogus") /\ HasKey(req.argmap, "prompt")
    /\ Len(sent) = 1
    /\ sent[1].body = <<KV("id", JStr("a1")), KV("name", JStr("Ava"))>>

\* the request carries the image by URL / as base64 data
SendsUrl(c) == HasKey(c.body, "image.url") \/ HasKey(c.body, "image_url")
SendsBase64(c) == HasKey(c.body, "image") \/ HasKey(c.body, "image_file_b64")

\* C30: vectorize_image and remove_background of slide-transform-mcp, called
\* with arguments that are among their parameters, never raise.  With
\* credentials and a (non-empty) image_url they send one request carrying
\* the URL, also when image_base64 is given; with credentials, no image_url
\* and a (non-empty) image_base64 they send one request carrying the data;
\* without credentials, or with neither, they send nothing and return
\* {success: false, error: ...}.
C30_InputChosenUrlFirst ==
    (/\ Answered /\ srv = "slide" /\ IsToolsCall /\ req.params = "map"
     /\ req.hasName /\ req.name \in {"vectorize_image", "remove_background"}
     /\ req.args # "scalar" /\ Binds(SlideSig(req.name), ReqArgs(req))) =>
        LET url == DictGet(ReqArgs(req), "image_url")
            b64 == DictGet(ReqArgs(req), "image_base64")
        IN  /\ hcall.made /\ ~hcall.raised
            /\ (configured /\ Truthy(url))
                  => Len(sent) = 1 /\ SendsUrl(sent[1]) /\ ~SendsBase64(sent[1])
            /\ (configured /\ ~Truthy(url) /\ Truthy(b64))
                  => Len(sent) = 1 /\ SendsBase64(sent[1]) /\ ~SendsUrl(sent[1])
            /\ (~configured \/ (~Truthy(url) /\ ~Truthy(b64)))
                  => sent = << >> /\ IsFailureMapping(hcall.result)

\* C30 witness: remove_background was called with credentials, an image_url
\* and an image_base64, and the one request sent carries the URL.
C30_Witness ==
    /\ ToolRan /\ srv = "slide" /\ configured /\ req.name = "remove_background"
    /\ HasKey(req.argmap, "image_url") /\ HasKey(req.argmap, "image_base64")
    /\ Truthy(DictGet(req.argmap, "image_url"))
    /\ Len(sent) = 1 /\ SendsUrl(sent[1])

=============================================================================
